---------------------------- MODULE Spec2Model ----------------------------
(***************************************************************************)
(* The per-node visibility Index (query.rs), the found-ops grouping        *)
(* iterator OpsFoundIter (op_set2/op_set/found_op.rs) and the value codec  *)
(* (op_set2/types.rs, op_set2/meta.rs) of automerge.                       *)
(*                                                                         *)
(* Spec      : two Index values ("self" and "other") driven by insert,     *)
(*             remove, change_vis and merge, next to the list of ops each  *)
(*             one covers.                                                 *)
(* SpecFound : OpsFoundIter::next called repeatedly on a finite stream.    *)
(* SpecFoundFair : the same on streams of consecutive positions, the       *)
(*             caller going on until next has returned None.               *)
(* SpecCommute : two Index values built by inserts and merged both ways.   *)
(* SpecCodec : the scalar, Action and ActorIdx codec functions of          *)
(*             op_set2/types.rs and op_set2/meta.rs called on drawn        *)
(*             arguments, and a ValueMeta column read with with_group.     *)
(***************************************************************************)
EXTENDS Integers, Sequences, FiniteSets, TLC

(***************************************************************************)
(* Bounds of the model.                                                    *)
(***************************************************************************)
MaxSteps == 4
MaxLen == 4
MaxNones == 2
MaxBytes == 2
MaxActors == 3
MaxCol == 4
MaxCalls == 2

VARIABLES
    index,      \* slot -> Index (the struct of query.rs:131-140)
    tree,       \* slot -> the ops of the subtree the Index covers, in insertion order
    hist,       \* slot -> history of the calls made on the Index (ghost)
    steps,      \* number of calls made so far
    panicked,   \* TRUE once a call has hit panic!("remove overun in index")
    call,       \* the last calls of change_vis a caller made on its own (ghost)
    stream,     \* the ops the wrapped iterator yields, in order
    clock,      \* OpsFoundIter::clock: "None" or "Some"
    iter,       \* OpsFoundIter::iter: the number of ops taken from the stream
    last_key,   \* OpsFoundIter::last_key: <<>> is None, <<k>> is Some(k)
    found,      \* OpsFoundIter::found: <<>> is None, <<f>> is Some(f)
    yielded,    \* the groups next has returned, in order
    nones,      \* how many times next has returned None
    family,     \* which codec functions are called: "scalar", "action", "actor", "column" or "none"
    scalar,     \* the ScalarValue encoded: <<>> is unset, <<s>> is s
    meta,       \* ValueMeta::from(&scalar), once computed
    raw,        \* scalar.to_raw(), once computed
    back,       \* ScalarValue::from_raw(meta, raw), once computed
    action,     \* the Action written, if the buffer comes from one
    buff,       \* the bytes handed to Action::unpack
    unpacked,   \* the Result of Action::unpack(buff), once computed
    val,        \* the Option<ActorIdx> validated
    actors,     \* ScanMeta::actors
    validated,  \* the Result of ActorIdx::validate, once computed
    col,        \* the items of a ColumnData<MetaCursor>
    cursor,     \* the with_group iterator over col
    got,        \* what the last call of next on the iterator returned
    mark_name,  \* the Option<&str> handed to from_action_and_value
    expand,     \* the expand flag handed to from_action_and_value
    optype,     \* what from_action_and_value did, once called
    projected   \* the Action of the owned OpType, once computed

ixvars == <<index, tree, hist, steps, panicked, call>>

fvars == <<stream, clock, iter, last_key, found, yielded, nones>>

ovars == <<mark_name, expand, optype, projected>>

cvars == <<family, scalar, meta, raw, back, action, buff, unpacked,
           val, actors, validated, col, cursor, got, ovars>>

(***************************************************************************)
(* Values.  An OpId is modelled by its counter (one actor); OpId::prev is  *)
(* the id with the preceding counter.  An op carries what Index reads from *)
(* it: id, elemid_or_key(), insert, visible(), width(ListEncoding::Text)   *)
(* and its action with the MarkData of a MarkBegin.  Ids are unique among  *)
(* the ops in the trees, so a tree holds at most as many ops as there are  *)
(* ids.                                                                    *)
(***************************************************************************)
OpIds == {1, 2, 3}
Keys == {1, 2}
Widths == {1, 2}
MarkDatas == {"bold", "link"}
NoData == "none"
Slots == {"self", "other"}

Prev(id) == id - 1

PutOps ==
    [id : OpIds, key : Keys, insert : BOOLEAN, vis : BOOLEAN, width : Widths,
     action : {"Put"}, data : {NoData}]

MarkOps ==
    [id : OpIds, key : {1}, insert : {TRUE}, vis : {FALSE}, width : {1},
     action : {"MarkBegin"}, data : MarkDatas]
    \cup
    [id : OpIds, key : {1}, insert : {TRUE}, vis : {FALSE}, width : {1},
     action : {"MarkEnd"}, data : {NoData}]

Ops == PutOps \cup MarkOps

(***************************************************************************)
(* HashMap helpers: a map is a function whose domain is its key set.       *)
(***************************************************************************)
EmptyMap == [k \in {} |-> 0]

MapInsert(m, k, v) == [x \in DOMAIN m \cup {k} |-> IF x = k THEN v ELSE m[x]]

MapRemove(m, k) == [x \in DOMAIN m \ {k} |-> m[x]]

SaturatingSub(a, b) == IF a >= b THEN a - b ELSE 0

(***************************************************************************)
(* TextWidth (query.rs:85-128).                                            *)
(***************************************************************************)
\* mutant: counts the op instead of adding its text width
TextWidthAddOp_CountsOne(tw, op) == [width |-> tw.width + 1]

TextWidthAddOp(tw, op) == [width |-> tw.width + op.width]

\* mutant: plain subtraction, which goes below zero instead of stopping at it
TextWidthRemoveOp_Wraps(tw, op) == [width |-> tw.width - op.width]

TextWidthRemoveOp(tw, op) == [width |-> SaturatingSub(tw.width, op.width)]

\* mutant: the width of other replaces the own width
TextWidthMerge_TakesOther(tw, other) == [width |-> other.width]

TextWidthMerge(tw, other) == [width |-> tw.width + other.width]

(***************************************************************************)
(* Index (query.rs:182-321).                                               *)
(***************************************************************************)
IndexNew ==
    [visible |-> EmptyMap,
     visible_text |-> [width |-> 0],
     ops |-> {},
     never_seen_puts |-> TRUE,
     mark_begin |-> EmptyMap,
     mark_end |-> <<>>]

VisibleLen(ix, encoding) ==
    IF encoding = "List" THEN Cardinality(DOMAIN ix.visible)
    ELSE ix.visible_text.width

HasVisible(ix, key) == key \in DOMAIN ix.visible

\* the (true, false) arm of change_vis and the visible branch of remove
\* panic when the key is not in visible
\* mutant: every (true, false) call panics, the key counted or not
ChangeVisPanics_EveryHide(ix, cv) == cv.old_vis /\ ~cv.new_vis

ChangeVisPanics(ix, cv) ==
    cv.old_vis /\ ~cv.new_vis /\ cv.op.key \notin DOMAIN ix.visible

\* mutant: the (true, false) arm stores n - 1 also when n = 1
IndexChangeVis_KeepsZero(ix, cv) ==
    LET key == cv.op.key IN
    IF cv.old_vis /\ ~cv.new_vis THEN
        IF key \notin DOMAIN ix.visible THEN ix
        ELSE [ix EXCEPT !.visible = MapInsert(ix.visible, key, ix.visible[key] - 1)]
    ELSE IF ~cv.old_vis /\ cv.new_vis THEN
        IF key \in DOMAIN ix.visible THEN
            [ix EXCEPT !.visible = MapInsert(ix.visible, key, ix.visible[key] + 1)]
        ELSE
            [ix EXCEPT !.visible = MapInsert(ix.visible, key, 1),
                       !.visible_text = TextWidthAddOp(ix.visible_text, cv.op)]
    ELSE ix

\* mutant: the (false, true) arm does not add the width of a new key's op
IndexChangeVis_ShowKeepsWidth(ix, cv) ==
    LET key == cv.op.key IN
    IF cv.old_vis /\ ~cv.new_vis THEN
        IF key \notin DOMAIN ix.visible THEN ix
        ELSE IF ix.visible[key] = 1 THEN
            [ix EXCEPT !.visible = MapRemove(ix.visible, key),
                       !.visible_text = TextWidthRemoveOp(ix.visible_text, cv.op)]
        ELSE [ix EXCEPT !.visible = MapInsert(ix.visible, key, ix.visible[key] - 1)]
    ELSE IF ~cv.old_vis /\ cv.new_vis THEN
        IF key \in DOMAIN ix.visible THEN
            [ix EXCEPT !.visible = MapInsert(ix.visible, key, ix.visible[key] + 1)]
        ELSE
            [ix EXCEPT !.visible = MapInsert(ix.visible, key, 1)]
    ELSE ix

IndexChangeVis(ix, cv) ==
    LET key == cv.op.key IN
    IF cv.old_vis /\ ~cv.new_vis THEN
        IF key \notin DOMAIN ix.visible THEN ix
        ELSE IF ix.visible[key] = 1 THEN
            [ix EXCEPT !.visible = MapRemove(ix.visible, key),
                       !.visible_text = TextWidthRemoveOp(ix.visible_text, cv.op)]
        ELSE [ix EXCEPT !.visible = MapInsert(ix.visible, key, ix.visible[key] - 1)]
    ELSE IF ~cv.old_vis /\ cv.new_vis THEN
        IF key \in DOMAIN ix.visible THEN
            [ix EXCEPT !.visible = MapInsert(ix.visible, key, ix.visible[key] + 1)]
        ELSE
            [ix EXCEPT !.visible = MapInsert(ix.visible, key, 1),
                       !.visible_text = TextWidthAddOp(ix.visible_text, cv.op)]
    ELSE ix

\* mutant: assigns op.insert instead of and-ing it in
InsertNeverSeenPuts_Assign(ix, op) == op.insert

InsertNeverSeenPuts(ix, op) == ix.never_seen_puts /\ op.insert

\* mutant: a MarkEnd is pushed onto mark_end also when it closes a MarkBegin
InsertMarks_AlwaysPush(ix, op) ==
    IF op.action = "MarkBegin" THEN
        [ix EXCEPT !.mark_begin = MapInsert(ix.mark_begin, op.id, op.data)]
    ELSE IF op.action = "MarkEnd" THEN
        [ix EXCEPT !.mark_begin = MapRemove(ix.mark_begin, Prev(op.id)),
                   !.mark_end = Append(ix.mark_end, op.id)]
    ELSE ix

InsertMarks(ix, op) ==
    IF op.action = "MarkBegin" THEN
        [ix EXCEPT !.mark_begin = MapInsert(ix.mark_begin, op.id, op.data)]
    ELSE IF op.action = "MarkEnd" THEN
        IF Prev(op.id) \in DOMAIN ix.mark_begin THEN
            [ix EXCEPT !.mark_begin = MapRemove(ix.mark_begin, Prev(op.id))]
        ELSE [ix EXCEPT !.mark_end = Append(ix.mark_end, op.id)]
    ELSE ix

InsertVisible(ix, op) ==
    IF op.vis THEN
        IF op.key \in DOMAIN ix.visible THEN
            [ix EXCEPT !.visible = MapInsert(ix.visible, op.key, ix.visible[op.key] + 1)]
        ELSE
            [ix EXCEPT !.visible = MapInsert(ix.visible, op.key, 1),
                       !.visible_text = TextWidthAddOp(ix.visible_text, op)]
    ELSE ix

IndexInsert(ix, op) ==
    LET a == [ix EXCEPT !.never_seen_puts = InsertNeverSeenPuts(ix, op),
                        !.ops = ix.ops \cup {op.id}]
        b == InsertMarks(a, op)
    IN  InsertVisible(b, op)

RemovePanics(ix, op) == op.vis /\ op.key \notin DOMAIN ix.visible

\* mutant: a removed MarkEnd stays in mark_end
RemoveMarks_BeginOnly(ix, op) ==
    IF op.action = "MarkBegin" THEN
        [ix EXCEPT !.mark_begin = MapRemove(ix.mark_begin, op.id)]
    ELSE ix

RemoveMarks(ix, op) ==
    IF op.action = "MarkBegin" THEN
        [ix EXCEPT !.mark_begin = MapRemove(ix.mark_begin, op.id)]
    ELSE IF op.action = "MarkEnd" THEN
        [ix EXCEPT !.mark_end = SelectSeq(ix.mark_end, LAMBDA id : id /= op.id)]
    ELSE ix

\* mutant: the last visible op of a key leaves the entry behind
RemoveVisible_KeepsEntry(ix, op) ==
    IF op.vis THEN
        IF op.key \notin DOMAIN ix.visible THEN ix
        ELSE IF ix.visible[op.key] = 1 THEN
            [ix EXCEPT !.visible_text = TextWidthRemoveOp(ix.visible_text, op)]
        ELSE [ix EXCEPT !.visible = MapInsert(ix.visible, op.key, ix.visible[op.key] - 1)]
    ELSE ix

RemoveVisible(ix, op) ==
    IF op.vis THEN
        IF op.key \notin DOMAIN ix.visible THEN ix
        ELSE IF ix.visible[op.key] = 1 THEN
            [ix EXCEPT !.visible = MapRemove(ix.visible, op.key),
                       !.visible_text = TextWidthRemoveOp(ix.visible_text, op)]
        ELSE [ix EXCEPT !.visible = MapInsert(ix.visible, op.key, ix.visible[op.key] - 1)]
    ELSE ix

IndexRemove(ix, op) ==
    LET a == [ix EXCEPT !.ops = ix.ops \ {op.id}]
        b == RemoveMarks(a, op)
    IN  RemoveVisible(b, op)

\* mutant: the count of other replaces the own count instead of adding to it
MergeVisible_Overwrite(mine, theirs) ==
    [k \in DOMAIN mine \cup DOMAIN theirs |->
        IF k \in DOMAIN theirs THEN theirs[k] ELSE mine[k]]

MergeVisible(mine, theirs) ==
    [k \in DOMAIN mine \cup DOMAIN theirs |->
        IF k \in DOMAIN mine /\ k \in DOMAIN theirs THEN mine[k] + theirs[k]
        ELSE IF k \in DOMAIN mine THEN mine[k] ELSE theirs[k]]

\* mutant: an own entry is kept when other has one with the same key
MergeMarkBegin_KeepsOwn(mine, theirs) ==
    [k \in DOMAIN mine \cup DOMAIN theirs |->
        IF k \in DOMAIN mine THEN mine[k] ELSE theirs[k]]

\* HashMap::extend: an entry of other replaces an entry with the same key
MergeMarkBegin(mine, theirs) ==
    [k \in DOMAIN mine \cup DOMAIN theirs |->
        IF k \in DOMAIN theirs THEN theirs[k] ELSE mine[k]]

IndexMerge(ix, other) ==
    [visible |-> MergeVisible(ix.visible, other.visible),
     visible_text |-> TextWidthMerge(ix.visible_text, other.visible_text),
     ops |-> ix.ops \cup other.ops,
     never_seen_puts |-> ix.never_seen_puts /\ other.never_seen_puts,
     mark_begin |-> MergeMarkBegin(ix.mark_begin, other.mark_begin),
     mark_end |-> ix.mark_end \o other.mark_end]

(***************************************************************************)
(* The harness around the two Index values.  tree[s] is the list of ops    *)
(* the Index of slot s covers; an op of the tree carries its current       *)
(* visibility.  "self" is inserted into, removed from, told of visibility  *)
(* changes and merged into; "other" is a sibling built by inserts that     *)
(* self.merge(&other) absorbs.  hist[s] records which calls the Index has  *)
(* seen:                                                                   *)
(*   mode       "build"  only inserts so far                               *)
(*              "undo"   inserts, then removes of the newest op each time  *)
(*              "insrem" inserts and removes in any order                  *)
(*              "other"  a change of visibility or a merge happened        *)
(*   merged     "no", "fresh" (the last call merged two indices that were  *)
(*              both only built by inserts) or "yes"                       *)
(*   split      the number of own ops before the last merge                *)
(*   removedPut an op with insert = false has been removed                 *)
(*   mixed      two ops with one key and different text widths have been   *)
(*              in the Index together                                      *)
(***************************************************************************)
HistNew ==
    [mode |-> "build", merged |-> "no", split |-> 0,
     removedPut |-> FALSE, mixed |-> FALSE]

Range(seq) == {seq[p] : p \in 1..Len(seq)}

UsedIds == {q.id : q \in Range(tree["self"]) \cup Range(tree["other"])}

RemoveAt(seq, p) == SubSeq(seq, 1, p - 1) \o SubSeq(seq, p + 1, Len(seq))

\* no call of change_vis recorded yet; <<>> stands for "none", <<x>> for x
CallIdle ==
    [n |-> 0, at |-> 0, honest |-> TRUE,
     cv |-> <<>>, pre |-> <<>>, ret |-> <<>>,
     pat |-> 0, pcv |-> <<>>, ppre |-> <<>>]

IndexInit ==
    /\ index = [s \in Slots |-> IndexNew]
    /\ tree = [s \in Slots |-> <<>>]
    /\ hist = [s \in Slots |-> HistNew]
    /\ steps = 0
    /\ panicked = FALSE
    /\ call = CallIdle

Insert(s, op) ==
    /\ ~panicked
    /\ steps < MaxSteps
    /\ op.id \notin UsedIds
    \* a Put takes the next free counter; a mark may take any free one, so
    \* that a MarkEnd can come before, after or without its MarkBegin
    /\ op.action = "Put" => \A i \in OpIds : i < op.id => i \in UsedIds
    /\ index' = [index EXCEPT ![s] = IndexInsert(index[s], op)]
    /\ tree' = [tree EXCEPT ![s] = Append(tree[s], op)]
    /\ hist' = [hist EXCEPT
            ![s].mode = IF @ = "undo" THEN "insrem" ELSE @,
            ![s].merged = IF @ = "fresh" THEN "yes" ELSE @,
            ![s].mixed = @ \/ \E q \in Range(tree[s]) :
                                 q.key = op.key /\ q.width /= op.width]
    /\ steps' = steps + 1
    /\ UNCHANGED <<panicked, call>>
    /\ UNCHANGED <<fvars, cvars>>

Remove(s, p) ==
    /\ ~panicked
    /\ steps < MaxSteps
    /\ p \in 1..Len(tree[s])
    /\ index' = [index EXCEPT ![s] = IndexRemove(index[s], tree[s][p])]
    /\ tree' = [tree EXCEPT ![s] = RemoveAt(tree[s], p)]
    /\ hist' = [hist EXCEPT
            ![s].mode = IF @ \in {"build", "undo"}
                        THEN (IF p = Len(tree[s]) THEN "undo" ELSE "insrem")
                        ELSE @,
            ![s].merged = IF @ = "fresh" THEN "yes" ELSE @,
            ![s].removedPut = @ \/ ~tree[s][p].insert]
    /\ steps' = steps + 1
    /\ panicked' = RemovePanics(index[s], tree[s][p])
    /\ UNCHANGED call
    /\ UNCHANGED <<fvars, cvars>>

\* the visibility of the op at position p becomes new_vis (its successors
\* changed), and the Index is told through change_vis
ChangeVis(s, p, new_vis) ==
    /\ ~panicked
    /\ steps < MaxSteps
    /\ p \in 1..Len(tree[s])
    /\ tree[s][p].action = "Put"
    /\ LET op == tree[s][p]
           cv == [old_vis |-> op.vis, new_vis |-> new_vis, op |-> op]
       IN  /\ index' = [index EXCEPT ![s] = IndexChangeVis(index[s], cv)]
           /\ tree' = [tree EXCEPT ![s][p].vis = new_vis]
           /\ hist' = IF op.vis = new_vis THEN hist
                      ELSE [hist EXCEPT
                              ![s].mode = "other",
                              ![s].merged = IF @ = "fresh" THEN "yes" ELSE @]
           /\ panicked' = ChangeVisPanics(index[s], cv)
    /\ steps' = steps + 1
    /\ UNCHANGED call
    /\ UNCHANGED <<fvars, cvars>>

\* self.merge(&other); the merged index then covers the ops of both, and
\* the other one is dropped
Merge ==
    /\ ~panicked
    /\ steps < MaxSteps
    /\ index' = [index EXCEPT !["self"] = IndexMerge(index["self"], index["other"]),
                              !["other"] = IndexNew]
    /\ tree' = [tree EXCEPT !["self"] = tree["self"] \o tree["other"],
                            !["other"] = <<>>]
    /\ hist' = [hist EXCEPT
            !["self"] = [mode |-> "other",
                         merged |-> IF /\ hist["self"].mode = "build"
                                       /\ hist["self"].merged = "no"
                                       /\ hist["other"].mode = "build"
                                       /\ hist["other"].merged = "no"
                                    THEN "fresh" ELSE "yes",
                         split |-> Len(tree["self"]),
                         removedPut |-> hist["self"].removedPut
                                          \/ hist["other"].removedPut,
                         mixed |-> hist["self"].mixed \/ hist["other"].mixed],
            !["other"] = HistNew]
    /\ steps' = steps + 1
    /\ UNCHANGED <<panicked, call>>
    /\ UNCHANGED <<fvars, cvars>>

\* a.merge(&b) on a copy of a and b.merge(&a) on a copy of b: "self" takes
\* the first result and "other" the second (hist: merged = "both")
MergeBothWays ==
    /\ ~panicked
    /\ steps < MaxSteps
    /\ \A s \in Slots : hist[s].merged = "no"
    /\ index' = [self |-> IndexMerge(index["self"], index["other"]),
                 other |-> IndexMerge(index["other"], index["self"])]
    /\ tree' = [self |-> tree["self"] \o tree["other"],
                other |-> tree["other"] \o tree["self"]]
    /\ hist' = [s \in Slots |->
                  [mode |-> "other", merged |-> "both", split |-> Len(tree[s]),
                   removedPut |-> FALSE, mixed |-> hist[s].mixed]]
    /\ steps' = steps + 1
    /\ UNCHANGED <<panicked, call>>
    /\ UNCHANGED <<fvars, cvars>>

\* two indices built by inserts alone, then merged both ways
CommuteNext ==
    \/ \E s \in Slots, op \in Ops : hist[s].merged = "no" /\ Insert(s, op)
    \/ MergeBothWays

IndexNext ==
    \/ \E s \in Slots, op \in Ops : Insert(s, op)
    \/ \E p \in 1..Cardinality(OpIds) : Remove("self", p)
    \/ \E p \in 1..Cardinality(OpIds), new_vis \in BOOLEAN : ChangeVis("self", p, new_vis)
    \/ Merge

(***************************************************************************)
(* A caller that calls change_vis with flags of its own choosing: old_vis  *)
(* need not be the visibility the Index counted the op with.  call records *)
(* the last call (cv, the Index before it, what it returned, the value of  *)
(* steps when it was made) and the same of the call before it (pcv, ppre,  *)
(* pat); honest says that every call so far passed the op's visibility as  *)
(* old_vis.                                                                *)
(***************************************************************************)
\* mutant: hands back the argument with its two flags swapped
ChangeVisReturn_Swapped(cv) ==
    [cv EXCEPT !.old_vis = cv.new_vis, !.new_vis = cv.old_vis]

ChangeVisReturn(cv) == cv

CallChangeVis(p, old_vis, new_vis) ==
    /\ ~panicked
    /\ call.n < MaxCalls
    /\ p \in 1..Len(tree["self"])
    /\ tree["self"][p].action = "Put"
    /\ LET op == tree["self"][p]
           cv == [old_vis |-> old_vis, new_vis |-> new_vis, op |-> op]
           panics == ChangeVisPanics(index["self"], cv)
       IN  /\ index' = [index EXCEPT !["self"] = IndexChangeVis(@, cv)]
           /\ tree' = [tree EXCEPT !["self"][p].vis = IF panics THEN @ ELSE new_vis]
           /\ hist' = [hist EXCEPT
                              !["self"].mode = "other",
                              !["self"].merged = IF @ = "fresh" THEN "yes" ELSE @]
           /\ panicked' = panics
           /\ call' = [n |-> call.n + 1, at |-> steps,
                       honest |-> call.honest /\ old_vis = op.vis,
                       cv |-> <<cv>>, pre |-> <<index["self"]>>,
                       ret |-> IF panics THEN <<>> ELSE <<ChangeVisReturn(cv)>>,
                       pat |-> call.at, pcv |-> call.cv, ppre |-> call.pre]
    /\ UNCHANGED steps
    /\ UNCHANGED <<fvars, cvars>>

\* the ids of the ops such a caller's Index is built from
CallIds == {1, 2}

\* the Index is built by inserts, then told of visibility changes, and ops
\* are removed from it at any time
CallsNext ==
    \/ \E op \in Ops : call.n = 0 /\ op.id \in CallIds /\ Insert("self", op)
    \/ \E p \in 1..Cardinality(OpIds) : Remove("self", p)
    \/ \E p \in 1..Cardinality(OpIds), old_vis \in BOOLEAN, new_vis \in BOOLEAN :
           CallChangeVis(p, old_vis, new_vis)

(***************************************************************************)
(* Two sibling indices that both hold a MarkBegin of one OpId (a store     *)
(* that spliced one op into two subtrees): InsertDup inserts into "other"  *)
(* a MarkBegin whose id is a key of mark_begin in "self", and Merge then   *)
(* joins the two.                                                          *)
(***************************************************************************)
InsertDup(op) ==
    /\ ~panicked
    /\ steps < MaxSteps
    /\ op.action = "MarkBegin"
    /\ op.id \in DOMAIN index["self"].mark_begin
    /\ op.id \notin {q.id : q \in Range(tree["other"])}
    /\ index' = [index EXCEPT !["other"] = IndexInsert(index["other"], op)]
    /\ tree' = [tree EXCEPT !["other"] = Append(tree["other"], op)]
    /\ hist' = hist
    /\ steps' = steps + 1
    /\ UNCHANGED <<panicked, call>>
    /\ UNCHANGED <<fvars, cvars>>

CollideNext ==
    \/ \E s \in Slots, op \in Ops : hist["self"].merged = "no" /\ Insert(s, op)
    \/ \E op \in MarkOps : hist["self"].merged = "no" /\ InsertDup(op)
    \/ hist["self"].merged = "no" /\ Merge

(***************************************************************************)
(* OpsFoundIter (op_set2/op_set/found_op.rs).  An op of the stream carries *)
(* what next reads: pos, elemid_or_key(), whether its action is Increment, *)
(* and whether the clock covers it.  Positions increase along the stream.  *)
(***************************************************************************)
Positions == 0..MaxLen

StreamAttrs == [key : Keys, action : {"Set", "Increment"}, covered : BOOLEAN]

None == <<>>

Some(x) == <<x>>

\* Op::scope_to_clock: without a clock every op is in scope; with one, the
\* ops the clock covers are
ScopeToClock(op) == clock = "None" \/ op.covered

OpsFoundDefault == [ops_pos |-> <<>>, ops |-> <<>>, end_pos |-> 0]

\* mutant: an Increment is grouped like any other op
IsIncrement_Never(op) == FALSE

IsIncrement(op) == op.action = "Increment"

\* mutant: every op starts a group
KeyChanged_Always(lk, op) == TRUE

KeyChanged(lk, op) == Some(op.key) /= lk

\* mutant: end_pos advances only over the ops in scope
AdvanceEnd_InScope(f, op) ==
    IF ScopeToClock(op) THEN [f EXCEPT !.end_pos = op.pos + 1] ELSE f

AdvanceEnd(f, op) == [f EXCEPT !.end_pos = op.pos + 1]

\* mutant: an op in scope is put in front of the ops of its group
PushIfScoped_Front(f, op) ==
    IF ScopeToClock(op) THEN
        [f EXCEPT !.ops_pos = <<op.pos>> \o f.ops_pos, !.ops = <<op>> \o f.ops]
    ELSE f

PushIfScoped(f, op) ==
    IF ScopeToClock(op) THEN
        [f EXCEPT !.ops_pos = Append(f.ops_pos, op.pos), !.ops = Append(f.ops, op)]
    ELSE f

\* the match on result at the end of the loop body
ReturnsNow(result) == result /= None /\ result[1].ops /= <<>>

\* mutant: the group buffered at the end of the stream is returned and kept
TakeFound_Keeps(fd) == [found |-> fd, ret |-> fd]

\* self.found.take(): the buffered group is returned and the buffer emptied
TakeFound(fd) == [found |-> None, ret |-> fd]

\* the while loop of next from the point where i ops have been taken; gives
\* the fields of the iterator afterwards and the value returned
RECURSIVE NextLoop(_, _, _, _)
NextLoop(i, lk, fd, result) ==
    IF i = Len(stream) THEN
        [iter |-> i, last_key |-> lk,
         found |-> TakeFound(fd).found, ret |-> TakeFound(fd).ret]
    ELSE
        LET op == stream[i + 1] IN
        IF IsIncrement(op) THEN NextLoop(i + 1, lk, fd, result)
        ELSE
            LET changed == KeyChanged(lk, op)
                result1 == IF changed THEN fd ELSE result
                lk1 == IF changed THEN Some(op.key) ELSE lk
                fd1 == IF changed THEN Some(OpsFoundDefault) ELSE fd
                fd2 == IF fd1 /= None
                       THEN Some(PushIfScoped(AdvanceEnd(fd1[1], op), op))
                       ELSE fd1
            IN  IF ReturnsNow(result1) THEN
                    [iter |-> i + 1, last_key |-> lk1, found |-> fd2, ret |-> result1]
                ELSE NextLoop(i + 1, lk1, fd2, result1)

OpsFoundIterNext == NextLoop(iter, last_key, found, None)

\* the elements of a set of numbers in increasing order
RECURSIVE Sorted(_)
Sorted(P) ==
    IF P = {} THEN <<>>
    ELSE LET m == CHOOSE x \in P : \A y \in P : x <= y
         IN  <<m>> \o Sorted(P \ {m})

FoundIdle ==
    /\ stream = <<>>
    /\ clock = "None"
    /\ iter = 0
    /\ last_key = None
    /\ found = None
    /\ yielded = <<>>
    /\ nones = 0

\* OpsFoundIter::new over any stream of at most MaxLen ops, with or without
\* a clock
FoundInit ==
    /\ \E P \in SUBSET Positions :
         /\ Cardinality(P) <= MaxLen
         /\ \E attrs \in [1..Cardinality(P) -> StreamAttrs] :
              stream = [i \in 1..Cardinality(P) |->
                           [pos |-> Sorted(P)[i], key |-> attrs[i].key,
                            action |-> attrs[i].action, covered |-> attrs[i].covered]]
    /\ clock \in {"None", "Some"}
    /\ clock = "None" => \A i \in 1..Len(stream) : stream[i].covered
    /\ iter = 0
    /\ last_key = None
    /\ found = None
    /\ yielded = <<>>
    /\ nones = 0

\* OpsFoundIter::new over a stream whose ops have the positions 0, 1, 2, ...
FoundInitDense ==
    /\ \E n \in 0..MaxLen :
         \E attrs \in [1..n -> StreamAttrs] :
              stream = [i \in 1..n |->
                           [pos |-> i - 1, key |-> attrs[i].key,
                            action |-> attrs[i].action, covered |-> attrs[i].covered]]
    /\ clock \in {"None", "Some"}
    /\ clock = "None" => \A i \in 1..Len(stream) : stream[i].covered
    /\ iter = 0
    /\ last_key = None
    /\ found = None
    /\ yielded = <<>>
    /\ nones = 0

\* one call of next
CallNext ==
    /\ nones < MaxNones
    /\ LET r == OpsFoundIterNext IN
        /\ iter' = r.iter
        /\ last_key' = r.last_key
        /\ found' = r.found
        /\ yielded' = IF r.ret /= None THEN Append(yielded, r.ret[1]) ELSE yielded
        /\ nones' = IF r.ret = None THEN nones + 1 ELSE nones
    /\ UNCHANGED <<stream, clock>>
    /\ UNCHANGED <<ixvars, cvars>>

(***************************************************************************)
(* Scalar values and their (meta, raw) encoding (op_set2/types.rs,         *)
(* op_set2/meta.rs).  A ScalarValue is a record with its variant in tag;   *)
(* a byte string is a sequence of numbers 0..255; a Str is the sequence of *)
(* its code points; an F64 is the sequence of the eight bytes of its IEEE  *)
(* bit pattern, most significant first.  Ok(x) and Err(e) are the two      *)
(* shapes of a Result.                                                     *)
(***************************************************************************)
Ok(x) == [ok |-> TRUE, val |-> x]

Err(e) == [ok |-> FALSE, err |-> e]

RECURSIVE BitOr(_, _)
BitOr(a, b) ==
    IF a = 0 THEN b
    ELSE IF b = 0 THEN a
    ELSE (IF a % 2 = 1 \/ b % 2 = 1 THEN 1 ELSE 0) + 2 * BitOr(a \div 2, b \div 2)

RECURSIVE BitAnd(_, _)
BitAnd(a, b) ==
    IF a = 0 \/ b = 0 THEN 0
    ELSE (IF a % 2 = 1 /\ b % 2 = 1 THEN 1 ELSE 0) + 2 * BitAnd(a \div 2, b \div 2)

\* the number of bits of a natural number (64 - leading_zeros)
RECURSIVE NumBits(_)
NumBits(n) == IF n = 0 THEN 0 ELSE 1 + NumBits(n \div 2)

\* packer::ulebsize and packer::lebsize: the size of the LEB128 encoding
ulebsize(i) == IF i = 0 THEN 1 ELSE (NumBits(i) + 6) \div 7

lebsize(i) == NumBits(IF i < 0 THEN -i - 1 ELSE i) \div 7 + 1

\* leb128::write::unsigned
RECURSIVE WriteUnsigned(_)
WriteUnsigned(i) ==
    LET byte == i % 128
        rest == i \div 128
    IN  IF rest /= 0 THEN <<byte + 128>> \o WriteUnsigned(rest) ELSE <<byte>>

\* leb128::write::signed: val >> 7 is the arithmetic shift
RECURSIVE WriteSigned(_)
WriteSigned(i) ==
    LET byte == i % 128
        rest == (i - byte) \div 128
        done == \/ rest = 0 /\ byte < 64
                \/ rest = -1 /\ byte >= 64
    IN  IF done THEN <<byte>> ELSE <<byte + 128>> \o WriteSigned(rest)

\* storage::parse::leb128_u64 on the whole input: the value, or an error
\* when the input ends inside the number
RECURSIVE ReadUnsigned(_)
ReadUnsigned(input) ==
    IF input = <<>> THEN Err("Uleb")
    ELSE IF Head(input) < 128 THEN Ok(Head(input))
    ELSE LET rest == ReadUnsigned(Tail(input))
         IN  IF rest.ok THEN Ok(Head(input) - 128 + 128 * rest.val) ELSE rest

\* storage::parse::leb128_i64: the last byte carries the sign in bit 6
RECURSIVE ReadSigned(_)
ReadSigned(input) ==
    IF input = <<>> THEN Err("Uleb")
    ELSE IF Head(input) < 128 THEN
        Ok(IF Head(input) >= 64 THEN Head(input) - 128 ELSE Head(input))
    ELSE LET rest == ReadSigned(Tail(input))
         IN  IF rest.ok THEN Ok(Head(input) - 128 + 128 * rest.val) ELSE rest

\* parse_uleb128 and parse_leb128: every error becomes ReadScalarError::Leb
parse_uleb128(input) ==
    LET r == ReadUnsigned(input) IN IF r.ok THEN r ELSE Err("Leb")

parse_leb128(input) ==
    LET r == ReadSigned(input) IN IF r.ok THEN r ELSE Err("Leb")

\* str::as_bytes: the UTF-8 bytes of a string of code points below 2048
RECURSIVE AsBytes(_)
AsBytes(s) ==
    IF s = <<>> THEN <<>>
    ELSE (IF Head(s) < 128 THEN <<Head(s)>>
          ELSE <<192 + (Head(s) \div 64), 128 + (Head(s) % 64)>>) \o AsBytes(Tail(s))

\* std::str::from_utf8 for one- and two-byte sequences
RECURSIVE FromUtf8(_)
FromUtf8(b) ==
    IF b = <<>> THEN Ok(<<>>)
    ELSE IF b[1] < 128 THEN
        LET rest == FromUtf8(Tail(b))
        IN  IF rest.ok THEN Ok(<<b[1]>> \o rest.val) ELSE rest
    ELSE IF /\ b[1] >= 194 /\ b[1] < 224
            /\ Len(b) >= 2 /\ b[2] >= 128 /\ b[2] < 192 THEN
        LET rest == FromUtf8(Tail(Tail(b)))
        IN  IF rest.ok THEN Ok(<<(b[1] - 192) * 64 + (b[2] - 128)>> \o rest.val)
            ELSE rest
    ELSE Err("Str")

\* f64::to_le_bytes and f64::from_le_bytes
Reverse(b) == [i \in 1..Len(b) |-> b[Len(b) + 1 - i]]

ToLeBytes(f) == Reverse(f)

FromLeBytes(b) == Reverse(b)

\* ValueMeta::type_code: the ValueType of the low four bits
ValueTypeNames ==
    <<"Null", "False", "True", "Uleb", "Leb", "Float", "String", "Bytes",
      "Counter", "Timestamp">>

TypeCode(m) ==
    LET low_byte == BitAnd(m % 256, 15)
    IN  IF low_byte <= 9 THEN [type |-> ValueTypeNames[low_byte + 1]]
        ELSE [type |-> "Unknown", code |-> low_byte]

\* ValueMeta::length
Length(m) == m \div 16

\* impl From<&ScalarValue> for ValueMeta
ValueMetaFrom(p) ==
    CASE p.tag = "Uint" -> BitOr(ulebsize(p.v) * 16, 3)
      [] p.tag = "Int" -> BitOr(lebsize(p.v) * 16, 4)
      [] p.tag = "Null" -> 0
      [] p.tag = "Boolean" -> IF p.v THEN 2 ELSE 1
      [] p.tag = "Timestamp" -> BitOr(lebsize(p.v) * 16, 9)
      [] p.tag = "F64" -> BitOr(8 * 16, 5)
      [] p.tag = "Counter" -> BitOr(lebsize(p.v) * 16, 8)
      [] p.tag = "Str" -> BitOr(Len(AsBytes(p.v)) * 16, 6)
      [] p.tag = "Bytes" -> BitOr(Len(p.v) * 16, 7)
      [] p.tag = "Unknown" -> BitOr(Len(p.bytes) * 16, p.type_code)

\* ScalarValue::from_raw
FromRaw(m, bytes) ==
    LET t == TypeCode(m) IN
    CASE t.type = "Null" -> Ok([tag |-> "Null"])
      [] t.type = "False" -> Ok([tag |-> "Boolean", v |-> FALSE])
      [] t.type = "True" -> Ok([tag |-> "Boolean", v |-> TRUE])
      [] t.type = "Uleb" ->
            LET r == parse_uleb128(bytes)
            IN  IF r.ok THEN Ok([tag |-> "Uint", v |-> r.val]) ELSE r
      [] t.type = "Leb" ->
            LET r == parse_leb128(bytes)
            IN  IF r.ok THEN Ok([tag |-> "Int", v |-> r.val]) ELSE r
      [] t.type = "Float" ->
            IF Len(bytes) = 8 THEN Ok([tag |-> "F64", v |-> FromLeBytes(bytes)])
            ELSE Err("Float")
      [] t.type = "String" ->
            LET r == FromUtf8(bytes)
            IN  IF r.ok THEN Ok([tag |-> "Str", v |-> r.val]) ELSE Err("Str")
      [] t.type = "Bytes" -> Ok([tag |-> "Bytes", v |-> bytes])
      [] t.type = "Counter" ->
            LET r == parse_leb128(bytes)
            IN  IF r.ok THEN Ok([tag |-> "Counter", v |-> r.val]) ELSE r
      [] t.type = "Timestamp" ->
            LET r == parse_leb128(bytes)
            IN  IF r.ok THEN Ok([tag |-> "Timestamp", v |-> r.val]) ELSE r
      [] t.type = "Unknown" ->
            Ok([tag |-> "Unknown", type_code |-> t.code, bytes |-> bytes])

\* ScalarValue::to_raw
ToRaw(p) ==
    CASE p.tag = "Bytes" -> Some(p.v)
      [] p.tag = "Str" -> Some(AsBytes(p.v))
      [] p.tag = "Null" -> None
      [] p.tag = "Boolean" -> None
      [] p.tag = "Uint" -> Some(WriteUnsigned(p.v))
      [] p.tag \in {"Int", "Counter", "Timestamp"} -> Some(WriteSigned(p.v))
      [] p.tag = "F64" -> Some(ToLeBytes(p.v))
      [] p.tag = "Unknown" -> Some(p.bytes)

\* derive(PartialEq) of ScalarValue: the variants and their fields are
\* compared, the f64 of an F64 as numbers (a NaN equals nothing)
IsNaN(f) ==
    /\ f[1] % 128 = 127
    /\ f[2] >= 240
    /\ (f[2] % 16 /= 0 \/ \E i \in 3..8 : f[i] /= 0)

ScalarEq(a, b) == a = b /\ ~(a.tag = "F64" /\ IsNaN(a.v))

\* the scalars the calls are made with
UintVals == {0, 1, 127, 128, 16383, 16384}
IntVals == {0, 1, -1, 63, 64, -64, -65, 8191, 8192, -8192, -8193}
ByteVals == {0, 128, 255}
Chars == {65, 233}
F64Vals ==
    {<<63, 240, 0, 0, 0, 0, 0, 0>>, <<0, 0, 0, 0, 0, 0, 0, 0>>,
     <<192, 9, 33, 251, 84, 68, 45, 24>>, <<127, 248, 0, 0, 0, 0, 0, 0>>}
TypeCodes == {0, 3, 9, 10, 15, 16, 255}

SeqsUpTo(S, n) == UNION {[1..k -> S] : k \in 0..n}

ByteStrings == SeqsUpTo(ByteVals, MaxBytes)

\* scalar is one of the ScalarValues of the model (enum ScalarValue)
ScalarChosen ==
    \/ \E b \in ByteStrings : scalar = Some([tag |-> "Bytes", v |-> b])
    \/ \E c \in SeqsUpTo(Chars, MaxBytes) : scalar = Some([tag |-> "Str", v |-> c])
    \/ \E i \in IntVals : scalar = Some([tag |-> "Int", v |-> i])
    \/ \E i \in UintVals : scalar = Some([tag |-> "Uint", v |-> i])
    \/ \E f \in F64Vals : scalar = Some([tag |-> "F64", v |-> f])
    \/ \E i \in IntVals : scalar = Some([tag |-> "Counter", v |-> i])
    \/ \E i \in IntVals : scalar = Some([tag |-> "Timestamp", v |-> i])
    \/ \E b \in BOOLEAN : scalar = Some([tag |-> "Boolean", v |-> b])
    \/ \E t \in TypeCodes, b \in ByteStrings :
          scalar = Some([tag |-> "Unknown", type_code |-> t, bytes |-> b])
    \/ scalar = Some([tag |-> "Null"])

(***************************************************************************)
(* Action and ActorIdx (op_set2/types.rs).                                 *)
(***************************************************************************)
Actions ==
    {"MakeMap", "Set", "MakeList", "Delete", "MakeText", "Increment",
     "MakeTable", "Mark"}

\* mutant: Delete is written with the code of MakeList
ActionToU64_DeleteAsList(a) ==
    CASE a = "MakeMap" -> 0
      [] a = "Set" -> 1
      [] a = "MakeList" -> 2
      [] a = "Delete" -> 2
      [] a = "MakeText" -> 4
      [] a = "Increment" -> 5
      [] a = "MakeTable" -> 6
      [] a = "Mark" -> 7

\* impl From<Action> for u64
ActionToU64(a) ==
    CASE a = "MakeMap" -> 0
      [] a = "Set" -> 1
      [] a = "MakeList" -> 2
      [] a = "Delete" -> 3
      [] a = "MakeText" -> 4
      [] a = "Increment" -> 5
      [] a = "MakeTable" -> 6
      [] a = "Mark" -> 7

\* the number of bytes of the first LEB128 number of buff
RECURSIVE LebLen(_)
LebLen(b) == IF Head(b) < 128 THEN 1 ELSE 1 + LebLen(Tail(b))

\* u64::unpack: the bytes read and the unsigned LEB128 number they hold
U64Unpack(b) ==
    LET r == ReadUnsigned(b)
    IN  IF r.ok THEN Ok(<<LebLen(b), r.val>>) ELSE Err("Leb")

\* mutant: the integer 8 is taken for Mark as well
ActionUnpack_EightIsMark(b) ==
    LET r == U64Unpack(b) IN
    IF ~r.ok THEN r
    ELSE LET len == r.val[1]
             result == r.val[2]
         IN  CASE result = 0 -> Ok(<<len, "MakeMap">>)
               [] result = 1 -> Ok(<<len, "Set">>)
               [] result = 2 -> Ok(<<len, "MakeList">>)
               [] result = 3 -> Ok(<<len, "Delete">>)
               [] result = 4 -> Ok(<<len, "MakeText">>)
               [] result = 5 -> Ok(<<len, "Increment">>)
               [] result = 6 -> Ok(<<len, "MakeTable">>)
               [] result \in {7, 8} -> Ok(<<len, "Mark">>)
               [] OTHER -> Err("InvalidValue")

\* Action::unpack
ActionUnpack(b) ==
    LET r == U64Unpack(b) IN
    IF ~r.ok THEN r
    ELSE LET len == r.val[1]
             result == r.val[2]
         IN  CASE result = 0 -> Ok(<<len, "MakeMap">>)
               [] result = 1 -> Ok(<<len, "Set">>)
               [] result = 2 -> Ok(<<len, "MakeList">>)
               [] result = 3 -> Ok(<<len, "Delete">>)
               [] result = 4 -> Ok(<<len, "MakeText">>)
               [] result = 5 -> Ok(<<len, "Increment">>)
               [] result = 6 -> Ok(<<len, "MakeTable">>)
               [] result = 7 -> Ok(<<len, "Mark">>)
               [] OTHER -> Err("InvalidValue")

\* the integers Action::unpack is given, and two inputs that are no number
UnpackInts == 0..9 \cup {127, 128, 300, 16384}

UnpackBuffs == {WriteUnsigned(n) : n \in UnpackInts} \cup {<<>>, <<128>>}

\* mutant: an index equal to the number of actors passes
ActorIdxValidate_Inclusive(v, m) ==
    IF v /= None /\ v[1] > m.actors
    THEN Err(<<"ActorIndexOutOfRange", v[1], m.actors>>)
    ELSE Ok(<<>>)

\* ActorIdx::validate against ScanMeta m
ActorIdxValidate(v, m) ==
    IF v /= None /\ v[1] >= m.actors
    THEN Err(<<"ActorIndexOutOfRange", v[1], m.actors>>)
    ELSE Ok(<<>>)

(***************************************************************************)
(* A column of ValueMeta read with with_group (op_set2/meta.rs, packer).   *)
(* The cursor of the iterator is the index of the next item, the end of    *)
(* its range and the running sum of the groups of the items before it.     *)
(***************************************************************************)
MetaVals == {1, 486, 166, 3, 4}

Columns == SeqsUpTo(MetaVals, MaxCol)

\* mutant: the group of an item is its whole word
ValueMetaGroup_RawWord(item) == item

\* ValueMeta::group
ValueMetaGroup(item) == Length(item)

\* the sum of the groups of the items of c with indices from..to-1 (0-based)
RECURSIVE GroupSum(_, _, _)
GroupSum(c, from, to) ==
    IF from >= to THEN 0
    ELSE ValueMetaGroup(c[from + 1]) + GroupSum(c, from + 1, to)

\* col.iter().with_group()
ColIter(c) == [pos |-> 0, end |-> Len(c), group |-> 0]

\* col.iter_range(i..j).with_group(): the running sum starts at the groups of
\* the items before the range
ColIterRange(c, i, j) ==
    LET e == IF j < Len(c) THEN j ELSE Len(c)
        b == IF i < e THEN i ELSE e
    IN  [pos |-> b, end |-> e, group |-> GroupSum(c, 0, b)]

\* next of the with_group iterator: the item, its index and the running
\* sum before it; the sum then takes the group of the item in
ColNext(c, cur) ==
    IF cur.pos >= cur.end THEN [cursor |-> cur, ret |-> None]
    ELSE [cursor |-> [cur EXCEPT !.pos = cur.pos + 1,
                                 !.group = cur.group + ValueMetaGroup(c[cur.pos + 1])],
          ret |-> Some([index |-> cur.pos, item |-> c[cur.pos + 1],
                        group |-> cur.group])]

\* advance_by(n): n calls of next whose items are dropped
RECURSIVE ColAdvanceBy(_, _, _)
ColAdvanceBy(c, cur, n) ==
    IF n = 0 THEN cur ELSE ColAdvanceBy(c, ColNext(c, cur).cursor, n - 1)

(***************************************************************************)
(* OpType (op_set2/types.rs).  An OpType is a record with its variant in   *)
(* type and the variant's fields beside it; a call either returns a value  *)
(* or panics.                                                              *)
(***************************************************************************)
Returned(x) == [panic |-> FALSE, val |-> x]

Panic(msg) == [panic |-> TRUE, msg |-> msg]

\* u64 as i64: the same 64 bits read in two's complement, which is the
\* same number below 2^63 (every u64 of the model is below 2^31)
U64AsI64(u) == u

\* mutant: a Counter is taken as the amount of an Increment too
FromActionAndValue_CounterIncrements(a, value, name, ex) ==
    CASE a = "MakeMap" -> Returned([type |-> "Make", obj |-> "Map"])
      [] a = "MakeList" -> Returned([type |-> "Make", obj |-> "List"])
      [] a = "MakeText" -> Returned([type |-> "Make", obj |-> "Text"])
      [] a = "MakeTable" -> Returned([type |-> "Make", obj |-> "Table"])
      [] a = "Set" -> Returned([type |-> "Put", value |-> value])
      [] a = "Delete" -> Returned([type |-> "Delete"])
      [] a = "Increment" ->
            IF value.tag \in {"Int", "Counter"}
            THEN Returned([type |-> "Increment", n |-> value.v])
            ELSE IF value.tag = "Uint"
            THEN Returned([type |-> "Increment", n |-> U64AsI64(value.v)])
            ELSE Panic("validate_action_and_value returned NonNumericInc")
      [] a = "Mark" ->
            IF name /= None
            THEN Returned([type |-> "MarkBegin", expand |-> ex,
                           data |-> [name |-> name[1], value |-> value]])
            ELSE Returned([type |-> "MarkEnd", expand |-> ex])

\* OpType::from_action_and_value
FromActionAndValue(a, value, name, ex) ==
    CASE a = "MakeMap" -> Returned([type |-> "Make", obj |-> "Map"])
      [] a = "MakeList" -> Returned([type |-> "Make", obj |-> "List"])
      [] a = "MakeText" -> Returned([type |-> "Make", obj |-> "Text"])
      [] a = "MakeTable" -> Returned([type |-> "Make", obj |-> "Table"])
      [] a = "Set" -> Returned([type |-> "Put", value |-> value])
      [] a = "Delete" -> Returned([type |-> "Delete"])
      [] a = "Increment" ->
            IF value.tag = "Int"
            THEN Returned([type |-> "Increment", n |-> value.v])
            ELSE IF value.tag = "Uint"
            THEN Returned([type |-> "Increment", n |-> U64AsI64(value.v)])
            ELSE Panic("validate_action_and_value returned NonNumericInc")
      [] a = "Mark" ->
            IF name /= None
            THEN Returned([type |-> "MarkBegin", expand |-> ex,
                           data |-> [name |-> name[1], value |-> value]])
            ELSE Returned([type |-> "MarkEnd", expand |-> ex])

\* ScalarValue::into_owned: the same variant with owned fields
ScalarIntoOwned(s) ==
    CASE s.tag = "Null" -> [tag |-> "Null"]
      [] s.tag = "Unknown" ->
            [tag |-> "Unknown", type_code |-> s.type_code, bytes |-> s.bytes]
      [] OTHER -> [tag |-> s.tag, v |-> s.v]

\* MarkData::into_owned
MarkDataIntoOwned(d) == [name |-> d.name, value |-> ScalarIntoOwned(d.value)]

\* OpType::into_owned
OpTypeIntoOwned(op) ==
    CASE op.type = "Make" -> [type |-> "Make", obj |-> op.obj]
      [] op.type = "Delete" -> [type |-> "Delete"]
      [] op.type = "Increment" -> [type |-> "Increment", n |-> op.n]
      [] op.type = "Put" -> [type |-> "Put", value |-> ScalarIntoOwned(op.value)]
      [] op.type = "MarkBegin" ->
            [type |-> "MarkBegin", expand |-> op.expand,
             data |-> MarkDataIntoOwned(op.data)]
      [] op.type = "MarkEnd" -> [type |-> "MarkEnd", expand |-> op.expand]

\* mutant: a MarkEnd is projected to Delete
OpTypeAction_MarkEndDeletes(op) ==
    CASE op.type = "Make" /\ op.obj = "Map" -> "MakeMap"
      [] op.type = "Put" -> "Set"
      [] op.type = "Make" /\ op.obj = "List" -> "MakeList"
      [] op.type = "Delete" -> "Delete"
      [] op.type = "Make" /\ op.obj = "Text" -> "MakeText"
      [] op.type = "Increment" -> "Increment"
      [] op.type = "Make" /\ op.obj = "Table" -> "MakeTable"
      [] op.type = "MarkBegin" -> "Mark"
      [] op.type = "MarkEnd" -> "Delete"

\* impl crate::types::OpType: action
OpTypeAction(op) ==
    CASE op.type = "Make" /\ op.obj = "Map" -> "MakeMap"
      [] op.type = "Put" -> "Set"
      [] op.type = "Make" /\ op.obj = "List" -> "MakeList"
      [] op.type = "Delete" -> "Delete"
      [] op.type = "Make" /\ op.obj = "Text" -> "MakeText"
      [] op.type = "Increment" -> "Increment"
      [] op.type = "Make" /\ op.obj = "Table" -> "MakeTable"
      [] op.type \in {"MarkBegin", "MarkEnd"} -> "Mark"

\* the mark names the calls are made with
MarkNames == {"bold", "link"}

\* the payloads from_raw is handed: byte strings, well-formed or not for
\* the type of the meta, and the eight bytes of the floats
Payloads == ByteStrings \cup F64Vals

(***************************************************************************)
(* The calls of the codec functions.  One family of functions is under     *)
(* test at a time; the variables of the others stay idle.                  *)
(***************************************************************************)
ScalarIdle == scalar = None /\ meta = None /\ raw = None /\ back = None

ActionIdle == action = None /\ buff = None /\ unpacked = None

ActorIdle == val = None /\ actors = 0 /\ validated = None

ColumnIdle == col = None /\ cursor = None /\ got = None

OpTypeIdle ==
    mark_name = None /\ expand = FALSE /\ optype = None /\ projected = None

CodecIdle ==
    /\ family = "none"
    /\ ScalarIdle /\ ActionIdle /\ ActorIdle /\ ColumnIdle /\ OpTypeIdle

ScalarDrawn ==
    /\ ScalarChosen
    /\ meta = None /\ raw = None /\ back = None

ActionDrawn ==
    /\ \/ action \in {Some(a) : a \in Actions} /\ buff = None
       \/ action = None /\ buff \in {Some(b) : b \in UnpackBuffs}
    /\ unpacked = None

ActorDrawn ==
    /\ val \in {None} \cup {Some(a) : a \in 0..(MaxActors + 1)}
    /\ actors \in 0..MaxActors
    /\ validated = None

ColumnDrawn ==
    /\ col \in {Some(c) : c \in Columns}
    /\ cursor = Some(ColIter(col[1]))
    /\ got = None

CodecInit ==
    /\ \/ family = "scalar" /\ ScalarDrawn /\ ActionIdle /\ ActorIdle /\ ColumnIdle
       \/ family = "action" /\ ScalarIdle /\ ActionDrawn /\ ActorIdle /\ ColumnIdle
       \/ family = "actor" /\ ScalarIdle /\ ActionIdle /\ ActorDrawn /\ ColumnIdle
       \/ family = "column" /\ ScalarIdle /\ ActionIdle /\ ActorIdle /\ ColumnDrawn
    /\ OpTypeIdle

\* ValueMeta::from(&scalar)
ToMeta ==
    /\ scalar /= None /\ meta = None
    /\ meta' = Some(ValueMetaFrom(scalar[1]))
    /\ UNCHANGED <<scalar, raw, back>>
    /\ UNCHANGED <<action, buff, unpacked, val, actors, validated, col, cursor, got>>
    /\ UNCHANGED <<family, ixvars, fvars, ovars>>

\* scalar.to_raw()
CallToRaw ==
    /\ scalar /= None /\ raw = None
    /\ raw' = Some(ToRaw(scalar[1]))
    /\ UNCHANGED <<scalar, meta, back>>
    /\ UNCHANGED <<action, buff, unpacked, val, actors, validated, col, cursor, got>>
    /\ UNCHANGED <<family, ixvars, fvars, ovars>>

\* ScalarValue::from_raw(meta, raw)
CallFromRaw ==
    /\ meta /= None /\ raw /= None /\ back = None
    /\ back' = Some(FromRaw(meta[1], IF raw[1] = None THEN <<>> ELSE raw[1][1]))
    /\ UNCHANGED <<scalar, meta, raw>>
    /\ UNCHANGED <<action, buff, unpacked, val, actors, validated, col, cursor, got>>
    /\ UNCHANGED <<family, ixvars, fvars, ovars>>

\* WriteOp::UInt(u64::from(action)) written as unsigned LEB128
Pack ==
    /\ action /= None /\ buff = None
    /\ buff' = Some(WriteUnsigned(ActionToU64(action[1])))
    /\ UNCHANGED <<action, unpacked>>
    /\ UNCHANGED <<scalar, meta, raw, back, val, actors, validated, col, cursor, got>>
    /\ UNCHANGED <<family, ixvars, fvars, ovars>>

\* Action::unpack(buff)
Unpack ==
    /\ buff /= None /\ unpacked = None
    /\ unpacked' = Some(ActionUnpack(buff[1]))
    /\ UNCHANGED <<action, buff>>
    /\ UNCHANGED <<scalar, meta, raw, back, val, actors, validated, col, cursor, got>>
    /\ UNCHANGED <<family, ixvars, fvars, ovars>>

\* ActorIdx::validate(&val, &ScanMeta{actors})
Validate ==
    /\ family = "actor"
    /\ validated = None
    /\ validated' = Some(ActorIdxValidate(val, [actors |-> actors]))
    /\ UNCHANGED <<val, actors>>
    /\ UNCHANGED <<scalar, meta, raw, back, action, buff, unpacked, col, cursor, got>>
    /\ UNCHANGED <<family, ixvars, fvars, ovars>>

\* iter.next() on the with_group iterator
WithGroupNext ==
    /\ col /= None
    /\ LET r == ColNext(col[1], cursor[1]) IN
        /\ cursor' = Some(r.cursor)
        /\ got' = r.ret
    /\ UNCHANGED col
    /\ UNCHANGED <<scalar, meta, raw, back, action, buff, unpacked, val, actors, validated>>
    /\ UNCHANGED <<family, ixvars, fvars, ovars>>

\* iter.advance_by(n)
AdvanceBy(n) ==
    /\ col /= None
    /\ cursor' = Some(ColAdvanceBy(col[1], cursor[1], n))
    /\ UNCHANGED <<col, got>>
    /\ UNCHANGED <<scalar, meta, raw, back, action, buff, unpacked, val, actors, validated>>
    /\ UNCHANGED <<family, ixvars, fvars, ovars>>

\* iter = col.iter_range(i..j).with_group()
IterRange(i, j) ==
    /\ col /= None
    /\ cursor' = Some(ColIterRange(col[1], i, j))
    /\ got' = None
    /\ UNCHANGED col
    /\ UNCHANGED <<scalar, meta, raw, back, action, buff, unpacked, val, actors, validated>>
    /\ UNCHANGED <<family, ixvars, fvars, ovars>>

\* an action, a value, an optional mark name and a flag, as read from the
\* columns of an op
OpTypeDrawn ==
    /\ action \in {Some(a) : a \in Actions}
    /\ buff = None /\ unpacked = None
    /\ ScalarDrawn
    /\ mark_name \in {None} \cup {Some(n) : n \in MarkNames}
    /\ expand \in BOOLEAN
    /\ optype = None /\ projected = None

OpTypeInit == family = "optype" /\ OpTypeDrawn /\ ActorIdle /\ ColumnIdle

\* OpType::from_action_and_value(action, value, mark_name, expand)
CallFromActionAndValue ==
    /\ family = "optype"
    /\ optype = None
    /\ optype' = Some(FromActionAndValue(action[1], scalar[1], mark_name, expand))
    /\ UNCHANGED <<mark_name, expand, projected>>
    /\ UNCHANGED <<scalar, meta, raw, back, action, buff, unpacked>>
    /\ UNCHANGED <<val, actors, validated, col, cursor, got>>
    /\ UNCHANGED <<family, ixvars, fvars>>

\* optype.into_owned().action(), when the call returned an OpType
CallAction ==
    /\ family = "optype"
    /\ optype /= None /\ ~optype[1].panic
    /\ projected = None
    /\ projected' = Some(OpTypeAction(OpTypeIntoOwned(optype[1].val)))
    /\ UNCHANGED <<mark_name, expand, optype>>
    /\ UNCHANGED <<scalar, meta, raw, back, action, buff, unpacked>>
    /\ UNCHANGED <<val, actors, validated, col, cursor, got>>
    /\ UNCHANGED <<family, ixvars, fvars>>

OpTypeNext ==
    \/ CallFromActionAndValue
    \/ CallAction

\* a meta of any type code whose length is that of the payload (the group
\* of the meta column hands from_raw that many bytes), and any payload
DecodeDrawn ==
    /\ scalar = None
    /\ \E bytes \in Payloads, t \in 0..15 :
          /\ meta = Some(BitOr(Len(bytes) * 16, t))
          /\ raw = Some(Some(bytes))
    /\ back = None

DecodeInit ==
    /\ family = "decode"
    /\ DecodeDrawn /\ ActionIdle /\ ActorIdle /\ ColumnIdle /\ OpTypeIdle

DecodeNext == CallFromRaw

CodecNext ==
    \/ ToMeta
    \/ CallToRaw
    \/ CallFromRaw
    \/ Pack
    \/ Unpack
    \/ Validate
    \/ WithGroupNext
    \/ \E n \in 1..MaxCol : AdvanceBy(n)
    \/ \E i \in 0..MaxCol, j \in 0..MaxCol : i <= j /\ IterRange(i, j)

vars == <<index, tree, hist, steps, panicked, call,
          stream, clock, iter, last_key, found, yielded, nones,
          family, scalar, meta, raw, back, action, buff, unpacked,
          val, actors, validated, col, cursor, got,
          mark_name, expand, optype, projected>>

Init == IndexInit /\ FoundIdle /\ CodecIdle

Next == IndexNext

Spec == Init /\ [][Next]_vars

InitFound == IndexInit /\ FoundInit /\ CodecIdle

NextFound == CallNext

SpecFound == InitFound /\ [][NextFound]_vars

\* the caller keeps calling next until it has seen None
InitFoundFair == IndexInit /\ FoundInitDense /\ CodecIdle

SpecFoundFair == InitFoundFair /\ [][NextFound]_vars /\ WF_vars(NextFound)

NextCommute == CommuteNext

SpecCommute == Init /\ [][NextCommute]_vars

InitCodec == IndexInit /\ FoundIdle /\ CodecInit

NextCalls == CallsNext

SpecCalls == Init /\ [][NextCalls]_vars

NextCollide == CollideNext

SpecCollide == Init /\ [][NextCollide]_vars

NextCodec == CodecNext

SpecCodec == InitCodec /\ [][NextCodec]_vars

InitOpType == IndexInit /\ FoundIdle /\ OpTypeInit

NextOpType == OpTypeNext

SpecOpType == InitOpType /\ [][NextOpType]_vars

InitDecode == IndexInit /\ FoundIdle /\ DecodeInit

NextDecode == DecodeNext

SpecDecode == InitDecode /\ [][NextDecode]_vars

(***************************************************************************)
(* What the claims compare the Index with.                                 *)
(***************************************************************************)
\* the Index obtained by inserting the ops of seq, in order, into ix
RECURSIVE InsertAll(_, _)
InsertAll(ix, seq) ==
    IF seq = <<>> THEN ix
    ELSE InsertAll(IndexInsert(ix, Head(seq)), Tail(seq))

Build(seq) == InsertAll(IndexNew, seq)

\* the number of visible ops with key k among the ops of seq
CountVisible(seq, k) ==
    Cardinality({p \in 1..Len(seq) : seq[p].vis /\ seq[p].key = k})

VisibleKeys(seq) == {k \in Keys : CountVisible(seq, k) > 0}

\* the first visible op with key k of seq
FirstVisible(seq, k) ==
    LET P == {p \in 1..Len(seq) : seq[p].vis /\ seq[p].key = k}
    IN  seq[CHOOSE p \in P : \A q \in P : p <= q]

RECURSIVE SumFirstWidths(_, _)
SumFirstWidths(seq, ks) ==
    IF ks = {} THEN 0
    ELSE LET k == CHOOSE x \in ks : TRUE
         IN  FirstVisible(seq, k).width + SumFirstWidths(seq, ks \ {k})

InsRemOnly(s) == hist[s].mode \in {"build", "undo", "insrem"}

\* the two op lists a fresh merge joined
PartA == SubSeq(tree["self"], 1, hist["self"].split)
PartB == SubSeq(tree["self"], hist["self"].split + 1, Len(tree["self"]))

(***************************************************************************)
(* C1 (as stated): after any sequence of insert and remove calls the Index *)
(* equals, in all fields, the Index built from scratch out of the ops      *)
(* still present, in their order of insertion.                             *)
(***************************************************************************)
C1_RebuildEqualsAllFields ==
    \A s \in Slots : InsRemOnly(s) => index[s] = Build(tree[s])

(***************************************************************************)
(* C1 (amended): after any sequence of insert and remove calls the fields  *)
(* visible and ops of the Index equal those of the Index built from        *)
(* scratch out of the ops still present.                                   *)
(***************************************************************************)
C1_RebuildEqualsVisibleOps ==
    \A s \in Slots : InsRemOnly(s) =>
        LET fresh == Build(tree[s]) IN
        /\ index[s].visible = fresh.visible
        /\ index[s].ops = fresh.ops

C1_Witness ==
    /\ hist["self"].mode = "insrem"
    /\ Len(tree["self"]) = 2
    /\ \E k \in Keys : HasVisible(index["self"], k)
    /\ index["self"] /= Build(tree["self"])

(***************************************************************************)
(* C2 (as stated): inserting the ops of S in order and then removing them  *)
(* in reverse order yields an Index equal to Index::new() in all fields.   *)
(***************************************************************************)
C2_UndoYieldsNew ==
    \A s \in Slots :
        (hist[s].mode = "undo" /\ tree[s] = <<>>) => index[s] = IndexNew

(***************************************************************************)
(* C2 (amended): inserting the ops of S in order and then removing them in *)
(* reverse order yields an Index equal to Index::new() in visible,         *)
(* visible_text.width, ops, mark_begin and mark_end; never_seen_puts is    *)
(* true again exactly when every op of S has insert = true.                *)
(***************************************************************************)
C2_UndoYieldsNewButFlag ==
    \A s \in Slots :
        (hist[s].mode = "undo" /\ tree[s] = <<>>) =>
            /\ [index[s] EXCEPT !.never_seen_puts = TRUE] = IndexNew
            /\ index[s].never_seen_puts = ~hist[s].removedPut

C2_Witness ==
    /\ hist["self"].mode = "undo"
    /\ tree["self"] = <<>>
    /\ steps = 4
    /\ index["self"].never_seen_puts

(***************************************************************************)
(* C3 (as stated): for disjoint op sequences A and B, merging the Index    *)
(* built from B into the Index built from A gives the Index built from A   *)
(* followed by B.                                                          *)
(***************************************************************************)
C3_MergeEqualsFresh ==
    hist["self"].merged = "fresh" => index["self"] = Build(tree["self"])

(***************************************************************************)
(* C3 (amended): the merged Index equals the Index built from A followed   *)
(* by B in visible, ops and never_seen_puts; it equals it in all fields    *)
(* when no key has visible ops in both A and B and no MarkEnd of B closes  *)
(* a MarkBegin left open in A.                                             *)
(***************************************************************************)
C3_NoSharedVisibleKey == VisibleKeys(PartA) \cap VisibleKeys(PartB) = {}

C3_NoCrossPair ==
    \A q \in Range(PartB) :
        q.action = "MarkEnd" => Prev(q.id) \notin DOMAIN Build(PartA).mark_begin

C3_MergeEqualsFreshWhenApart ==
    hist["self"].merged = "fresh" =>
        LET fresh == Build(tree["self"]) IN
        /\ index["self"].visible = fresh.visible
        /\ index["self"].ops = fresh.ops
        /\ index["self"].never_seen_puts = fresh.never_seen_puts
        /\ (C3_NoSharedVisibleKey /\ C3_NoCrossPair) => index["self"] = fresh

C3_Witness ==
    /\ hist["self"].merged = "fresh"
    /\ Len(PartA) >= 1
    /\ Len(PartB) >= 1
    /\ \E k \in Keys : HasVisible(index["self"], k) /\ index["self"].visible[k] = 2
    /\ index["self"].mark_end /= <<>>

(***************************************************************************)
(* C4 (as stated): never_seen_puts is true iff every op currently in the   *)
(* subtree of the Index has insert = true.                                 *)
(***************************************************************************)
C4_NeverSeenPutsIffAllInsert ==
    \A s \in Slots :
        index[s].never_seen_puts <=> \A q \in Range(tree[s]) : q.insert

(***************************************************************************)
(* C4 (amended): never_seen_puts is true iff every op ever inserted into   *)
(* the Index, or into an Index merged into it, had insert = true: that is, *)
(* iff every op currently in the subtree has insert = true and no op with  *)
(* insert = false has been removed.                                        *)
(***************************************************************************)
C4_NeverSeenPutsIffNoPutEver ==
    \A s \in Slots :
        index[s].never_seen_puts <=>
            /\ \A q \in Range(tree[s]) : q.insert
            /\ ~hist[s].removedPut

C4_Witness ==
    /\ hist["self"].merged = "yes"
    /\ hist["self"].removedPut
    /\ tree["self"] /= <<>>
    /\ \A q \in Range(tree["self"]) : q.insert
    /\ ~index["self"].never_seen_puts

(***************************************************************************)
(* C5: for every key k, visible[k] is the number of visible ops with key k *)
(* in the subtree, k is absent from visible exactly when that number is 0, *)
(* and no entry holds the count 0.                                         *)
(***************************************************************************)
C5_VisibleCounts ==
    \A s \in Slots : \A k \in Keys :
        /\ HasVisible(index[s], k) <=> CountVisible(tree[s], k) > 0
        /\ HasVisible(index[s], k) => index[s].visible[k] = CountVisible(tree[s], k)
        /\ HasVisible(index[s], k) => index[s].visible[k] /= 0

C5_Witness ==
    /\ hist["self"].merged = "yes"
    /\ hist["self"].mode = "other"
    /\ \E k \in Keys : HasVisible(index["self"], k) /\ index["self"].visible[k] = 2
    /\ \E k \in Keys : ~HasVisible(index["self"], k)
                          /\ \E q \in Range(tree["self"]) : q.key = k

(***************************************************************************)
(* C6 (as stated): after insert, remove and change_vis on one Index,       *)
(* visible_text.width is the sum, over the keys that have visible ops, of  *)
(* the text width of the first visible op of the key.                      *)
(***************************************************************************)
C6_WidthIsSumOfFirstVisible ==
    \A s \in Slots :
        hist[s].merged = "no" =>
            VisibleLen(index[s], "Text")
                = SumFirstWidths(tree[s], VisibleKeys(tree[s]))

(***************************************************************************)
(* C6 (amended): the same, provided no two ops with the same key and       *)
(* different text widths have been in the Index at the same time.          *)
(***************************************************************************)
C6_WidthIsSumWhenUniform ==
    \A s \in Slots :
        (hist[s].merged = "no" /\ ~hist[s].mixed) =>
            VisibleLen(index[s], "Text")
                = SumFirstWidths(tree[s], VisibleKeys(tree[s]))

C6_Witness ==
    /\ hist["self"].merged = "no"
    /\ ~hist["self"].mixed
    /\ hist["self"].mode = "other"
    /\ Len(tree["self"]) = 3
    /\ VisibleLen(index["self"], "Text") = 3
    /\ VisibleLen(index["self"], "List") = 2

(***************************************************************************)
(* What the claims compare the groups of OpsFoundIter with.                *)
(***************************************************************************)
RECURSIVE Concat(_)
Concat(seqs) == IF seqs = <<>> THEN <<>> ELSE Head(seqs) \o Concat(Tail(seqs))

IsPrefix(a, b) == Len(a) <= Len(b) /\ a = SubSeq(b, 1, Len(a))

GroupOps == [g \in 1..Len(yielded) |-> yielded[g].ops]

\* the ops of the stream that are no Increment, and those of them in scope
NonIncrement == SelectSeq(stream, LAMBDA op : op.action /= "Increment")

InScope(seq) == SelectSeq(seq, ScopeToClock)

\* the maximal runs of consecutive ops with equal key of a list of ops
RECURSIVE RunsOf(_)
RunsOf(seq) ==
    IF seq = <<>> THEN <<>>
    ELSE LET rest == RunsOf(Tail(seq)) IN
         IF rest /= <<>> /\ Head(rest)[1].key = Head(seq).key
         THEN <<(<<Head(seq)>> \o Head(rest))>> \o Tail(rest)
         ELSE <<(<<Head(seq)>>)>> \o rest

Runs == RunsOf(NonIncrement)

ScopedRuns == [r \in 1..Len(Runs) |-> InScope(Runs[r])]

NonEmpty(seqs) == SelectSeq(seqs, LAMBDA x : x /= <<>>)

Exhausted == nones >= 1

(***************************************************************************)
(* C7: the ops of the yielded groups, concatenated in the order of         *)
(* emission, are at any time a prefix of the stream filtered to the ops    *)
(* that are no Increment and are in scope, and are all of it once the      *)
(* stream is exhausted.                                                    *)
(***************************************************************************)
C7_ConcatIsFilteredStream ==
    /\ IsPrefix(Concat(GroupOps), InScope(NonIncrement))
    /\ Exhausted => Concat(GroupOps) = InScope(NonIncrement)

C7_Witness ==
    /\ Exhausted
    /\ clock = "Some"
    /\ Len(yielded) = 2
    /\ Len(Concat(GroupOps)) = 2
    /\ Len(stream) = 4
    /\ \E i \in 1..Len(stream) : stream[i].action = "Increment"
    /\ \E i \in 1..Len(stream) : stream[i].action = "Set" /\ ~stream[i].covered

(***************************************************************************)
(* C8: every group next returns holds at least one op.                     *)
(***************************************************************************)
C8_GroupsNonEmpty ==
    \A g \in 1..Len(yielded) : yielded[g].ops /= <<>>

(***************************************************************************)
(* C9: the ops of every yielded group are the ops in scope of one maximal  *)
(* run of consecutive non-Increment ops with equal key, and once the       *)
(* stream is exhausted the non-empty groups are, in order, the non-empty   *)
(* in-scope parts of the runs: no run is split and no two runs are joined. *)
(***************************************************************************)
C9_GroupsAreRuns ==
    /\ \A g \in 1..Len(yielded) :
          \E r \in 1..Len(Runs) : yielded[g].ops = ScopedRuns[r]
    /\ Exhausted => NonEmpty(GroupOps) = NonEmpty(ScopedRuns)

C9_Witness ==
    /\ Exhausted
    /\ Len(Runs) = 2
    /\ Len(yielded) = 2
    /\ \E i \in 2..(Len(stream) - 1) :
          /\ stream[i].action = "Increment"
          /\ stream[i].key /= stream[i - 1].key
          /\ stream[i - 1].action = "Set"
          /\ stream[i + 1].action = "Set"
          /\ stream[i - 1].key = stream[i + 1].key
          /\ ScopeToClock(stream[i - 1])
          /\ ScopeToClock(stream[i + 1])

(***************************************************************************)
(* C10: end_pos of every yielded group is pos + 1 of the last op of the    *)
(* run of the group, in scope or not, and exceeds every position of        *)
(* ops_pos.                                                                *)
(***************************************************************************)
C10_EndPosCoversRun ==
    \A g \in 1..Len(yielded) :
        /\ \E r \in 1..Len(Runs) :
              /\ yielded[g].ops = ScopedRuns[r]
              /\ yielded[g].end_pos = Runs[r][Len(Runs[r])].pos + 1
        /\ \A i \in 1..Len(yielded[g].ops_pos) :
              /\ yielded[g].ops_pos[i] = yielded[g].ops[i].pos
              /\ yielded[g].ops_pos[i] < yielded[g].end_pos
        /\ Len(yielded[g].ops_pos) = Len(yielded[g].ops)

\* a group whose run ends with an op out of scope: end_pos is beyond the
\* last position of ops_pos by more than one
C10_Witness ==
    \E g \in 1..Len(yielded) :
        /\ yielded[g].ops /= <<>>
        /\ yielded[g].end_pos > yielded[g].ops_pos[Len(yielded[g].ops_pos)] + 1
        /\ \E i \in 1..Len(stream) :
              /\ stream[i].pos + 1 = yielded[g].end_pos
              /\ stream[i].action = "Set"
              /\ ~ScopeToClock(stream[i])
              /\ stream[i].key = yielded[g].ops[1].key

(***************************************************************************)
(* C11: over a stream of strictly increasing pos, ops_pos is strictly      *)
(* increasing inside every yielded group, every position of a group is     *)
(* smaller than every position of a group yielded after it, and end_pos is *)
(* strictly increasing over the yielded groups.                            *)
(***************************************************************************)
C11_OrderPreserved ==
    /\ \A g \in 1..Len(yielded) :
          \A i, j \in 1..Len(yielded[g].ops_pos) :
              i < j => yielded[g].ops_pos[i] < yielded[g].ops_pos[j]
    /\ \A g, h \in 1..Len(yielded) : g < h =>
          /\ \A i \in 1..Len(yielded[g].ops_pos), j \in 1..Len(yielded[h].ops_pos) :
                yielded[g].ops_pos[i] < yielded[h].ops_pos[j]
          /\ yielded[g].end_pos < yielded[h].end_pos

C11_Witness ==
    /\ Len(yielded) = 2
    /\ Len(yielded[1].ops_pos) = 2
    /\ Len(yielded[2].ops_pos) = 2
    /\ yielded[1].end_pos < yielded[2].ops_pos[1]

(***************************************************************************)
(* C12: on a finite stream repeated calls of next come to return None; the *)
(* group buffered when the stream has ended is returned by the next call   *)
(* and the buffer is empty afterwards, no group is yielded twice, and once *)
(* next has returned None every later call returns None.                   *)
(***************************************************************************)
C12_Terminates ==
    /\ <>Exhausted
    /\ [][(iter = Len(stream) /\ found /= None)
            => (yielded' = Append(yielded, found[1]) /\ found' = None)]_vars
    /\ [][Exhausted => (yielded' = yielded /\ nones' = nones + 1)]_vars
    /\ [](\A g, h \in 1..Len(yielded) : g /= h => yielded[g] /= yielded[h])
    /\ [](Exhausted => (iter = Len(stream) /\ found = None))

\* next has returned two groups, the second one out of the buffer after the
\* end of the stream, and then None twice
C12_Witness ==
    /\ nones = 2
    /\ Len(yielded) = 2
    /\ yielded[2].ops /= <<>>
    /\ yielded[2].end_pos = stream[Len(stream)].pos + 1
    /\ found = None

(***************************************************************************)
(* What the claims compare the codec functions with.                       *)
(***************************************************************************)
\* the bytes of scalar.to_raw(), none when to_raw is None
RawBytes == IF raw[1] = None THEN <<>> ELSE raw[1][1]

\* the type code and the length the encoding table gives for a scalar
TableCode(s) ==
    CASE s.tag = "Null" -> 0
      [] s.tag = "Boolean" -> IF s.v THEN 2 ELSE 1
      [] s.tag = "Uint" -> 3
      [] s.tag = "Int" -> 4
      [] s.tag = "F64" -> 5
      [] s.tag = "Str" -> 6
      [] s.tag = "Bytes" -> 7
      [] s.tag = "Counter" -> 8
      [] s.tag = "Timestamp" -> 9
      [] s.tag = "Unknown" -> s.type_code

TableLength(s) ==
    CASE s.tag \in {"Null", "Boolean"} -> 0
      [] s.tag = "Uint" -> Len(WriteUnsigned(s.v))
      [] s.tag \in {"Int", "Counter", "Timestamp"} -> Len(WriteSigned(s.v))
      [] s.tag = "F64" -> 8
      [] s.tag = "Str" -> Len(AsBytes(s.v))
      [] s.tag = "Bytes" -> Len(s.v)
      [] s.tag = "Unknown" -> Len(s.bytes)

\* the sum of length() of the first n items of a column
RECURSIVE LengthSum(_, _)
LengthSum(c, n) == IF n = 0 THEN 0 ELSE LengthSum(c, n - 1) + Length(c[n])

(***************************************************************************)
(* C13: for every ScalarValue s, with m = ValueMeta::from(&s): m.length()  *)
(* is the number of bytes of s.to_raw() (0 when to_raw is None), and       *)
(* ScalarValue::from_raw(m, raw) on those bytes returns a value equal to   *)
(* s.                                                                      *)
(***************************************************************************)
C13_MetaRawRoundTrip ==
    /\ (meta /= None /\ raw /= None) => Length(meta[1]) = Len(RawBytes)
    /\ back /= None => (back[1].ok /\ ScalarEq(back[1].val, scalar[1]))

(***************************************************************************)
(* C14: Action::unpack applied to the unsigned LEB128 encoding of          *)
(* u64::from(a) returns a, for every Action a; u64::from is injective, its *)
(* image is 0..7, and the codes are MakeMap 0, Set 1, MakeList 2, Delete   *)
(* 3, MakeText 4, Increment 5, MakeTable 6, Mark 7.                        *)
(***************************************************************************)
C14_ActionRoundTrip ==
    /\ (action /= None /\ unpacked /= None) =>
          /\ unpacked[1].ok
          /\ unpacked[1].val[2] = action[1]
          /\ unpacked[1].val[1] = Len(buff[1])
    /\ \A a, b \in Actions : ActionToU64(a) = ActionToU64(b) => a = b
    /\ {ActionToU64(a) : a \in Actions} = 0..7
    /\ <<ActionToU64("MakeMap"), ActionToU64("Set"), ActionToU64("MakeList"),
         ActionToU64("Delete"), ActionToU64("MakeText"), ActionToU64("Increment"),
         ActionToU64("MakeTable"), ActionToU64("Mark")>> = <<0, 1, 2, 3, 4, 5, 6, 7>>

C14_Witness ==
    /\ action = Some("Delete")
    /\ buff = Some(<<3>>)
    /\ unpacked = Some(Ok(<<1, "Delete">>))

(***************************************************************************)
(* C15: Action::unpack returns the error PackError::InvalidValue, and no   *)
(* Action, whenever the integer decoded from the buffer is not in 0..7.    *)
(***************************************************************************)
C15_InvalidActionRejected ==
    (unpacked /= None /\ U64Unpack(buff[1]).ok
        /\ U64Unpack(buff[1]).val[2] \notin 0..7)
    => unpacked[1] = Err("InvalidValue")

C15_Witness ==
    /\ action = None
    /\ buff = Some(<<172, 2>>)
    /\ unpacked = Some(Err("InvalidValue"))

(***************************************************************************)
(* C16: ActorIdx::validate against ScanMeta{actors} returns                *)
(* Err(ActorIndexOutOfRange(idx, actors)) for every present index idx >=   *)
(* actors, and Ok for every present index idx < actors and for an absent   *)
(* value; with actors = 0 every present index is rejected.                 *)
(***************************************************************************)
C16_ActorIndexRange ==
    (family = "actor" /\ validated /= None) =>
        /\ (val /= None /\ val[1] >= actors) =>
              validated[1] = Err(<<"ActorIndexOutOfRange", val[1], actors>>)
        /\ (val /= None /\ val[1] < actors) => validated[1] = Ok(<<>>)
        /\ val = None => validated[1] = Ok(<<>>)
        /\ (actors = 0 /\ val /= None) => ~validated[1].ok

\* the first index past the declared actors
C16_Witness ==
    /\ family = "actor"
    /\ val = Some(3)
    /\ actors = 3
    /\ validated = Some(Err(<<"ActorIndexOutOfRange", 3, 3>>))

(***************************************************************************)
(* C17: the group value that with_group yields with the item at index i of *)
(* a ValueMeta column is the sum of length() of the items at indices       *)
(* 0..i-1, also when the iteration has started at index i through          *)
(* advance_by or iter_range.                                               *)
(***************************************************************************)
C17_GroupIsByteOffset ==
    got /= None =>
        /\ got[1].item = col[1][got[1].index + 1]
        /\ got[1].group = LengthSum(col[1], got[1].index)

\* the column of the test column_data_meta_group: Meta(3) comes with 40
C17_Witness ==
    /\ col = Some(<<1, 486, 166, 3>>)
    /\ got = Some([index |-> 3, item |-> 3, group |-> 40])
    /\ cursor[1].pos = 4

(***************************************************************************)
(* C18: the word of ValueMeta::from(&s) has in its low 4 bits the type     *)
(* code and in its remaining bits the length of the encoding table: Null   *)
(* (0,0), false (1,0), true (2,0), Uint (3, ulebsize), Int (4, lebsize),   *)
(* F64 (5, 8), Str (6, byte length), Bytes (7, byte length), Counter       *)
(* (8, lebsize), Timestamp (9, lebsize), Unknown{code, bytes} (code,       *)
(* bytes.len()); Uint(0) gives 0x13, Int(-1) 0x14 and F64(1.0) 0x85.       *)
(***************************************************************************)
C18_MetaFollowsTable ==
    /\ meta /= None =>
          /\ BitAnd(meta[1], 15) = TableCode(scalar[1])
          /\ Length(meta[1]) = TableLength(scalar[1])
    /\ ValueMetaFrom([tag |-> "Uint", v |-> 0]) = 19
    /\ ValueMetaFrom([tag |-> "Int", v |-> -1]) = 20
    /\ ValueMetaFrom([tag |-> "F64", v |-> <<63, 240, 0, 0, 0, 0, 0, 0>>]) = 133

(***************************************************************************)
(* C19 (as stated): for indices a and b built from disjoint op sets,       *)
(* a.merge(b) and b.merge(a) leave Index values equal in all fields,       *)
(* mark_end and mark_begin included.                                       *)
(***************************************************************************)
C19_MergeCommutes ==
    hist["self"].merged = "both" => index["self"] = index["other"]

(***************************************************************************)
(* C19 (amended): a.merge(b) and b.merge(a) are equal in visible,          *)
(* visible_text, ops, never_seen_puts and mark_begin; mark_end holds the   *)
(* same ids in both, a's before b's in a.merge(b) and b's before a's in    *)
(* b.merge(a), so the two are equal in all fields when a or b has an empty *)
(* mark_end.                                                               *)
(***************************************************************************)
C19_MergeCommutesButMarkEndOrder ==
    hist["self"].merged = "both" =>
        LET a == Build(SubSeq(tree["self"], 1, hist["self"].split))
            b == Build(SubSeq(tree["other"], 1, hist["other"].split))
        IN  /\ [index["self"] EXCEPT !.mark_end = <<>>]
                  = [index["other"] EXCEPT !.mark_end = <<>>]
            /\ index["self"].mark_end = a.mark_end \o b.mark_end
            /\ index["other"].mark_end = b.mark_end \o a.mark_end
            /\ (a.mark_end = <<>> \/ b.mark_end = <<>>)
                  => index["self"] = index["other"]

\* both indices bring an open MarkEnd and one of them a visible op
C19_Witness ==
    /\ hist["self"].merged = "both"
    /\ index["self"].mark_end /= index["other"].mark_end
    /\ Len(index["self"].mark_end) = 2
    /\ \E k \in Keys : HasVisible(index["self"], k)
    /\ VisibleLen(index["self"], "Text") = 2
    /\ ~index["self"].never_seen_puts

(***************************************************************************)
(* C20: Index::insert of a MarkEnd with id e removes the entry prev(e) of  *)
(* mark_begin and leaves mark_end alone when mark_begin has that entry,    *)
(* and otherwise pushes e onto mark_end and leaves mark_begin alone.       *)
(* Hence MarkBegin(id) then MarkEnd(next(id)) inserted into an empty Index *)
(* leave mark_begin and mark_end empty, and a MarkEnd inserted alone       *)
(* leaves mark_end = [its id] and mark_begin empty.                        *)
(***************************************************************************)
C20_MarkEndPairsWithBegin ==
    /\ [][\A s \in Slots : \A op \in MarkOps :
            (/\ op.action = "MarkEnd"
             /\ tree'[s] = Append(tree[s], op)
             /\ \A t \in Slots \ {s} : tree'[t] = tree[t]
             /\ hist'[s].merged = "no")
            => IF Prev(op.id) \in DOMAIN index[s].mark_begin
               THEN /\ index'[s].mark_begin
                          = MapRemove(index[s].mark_begin, Prev(op.id))
                    /\ index'[s].mark_end = index[s].mark_end
               ELSE /\ index'[s].mark_end = Append(index[s].mark_end, op.id)
                    /\ index'[s].mark_begin = index[s].mark_begin]_vars
    /\ [](\A s \in Slots : hist[s].merged = "no" =>
            /\ (/\ Len(tree[s]) = 2
                /\ tree[s][1].action = "MarkBegin"
                /\ tree[s][2].action = "MarkEnd"
                /\ Prev(tree[s][2].id) = tree[s][1].id)
               => (index[s].mark_begin = EmptyMap /\ index[s].mark_end = <<>>)
            /\ (Len(tree[s]) = 1 /\ tree[s][1].action = "MarkEnd")
               => (index[s].mark_begin = EmptyMap
                     /\ index[s].mark_end = <<tree[s][1].id>>))

\* a pair inserted into "self" and a MarkEnd alone into "other"
C20_Witness ==
    /\ \A s \in Slots : hist[s].merged = "no"
    /\ Len(tree["self"]) = 2
    /\ tree["self"][1].action = "MarkBegin"
    /\ tree["self"][2].action = "MarkEnd"
    /\ tree["self"][2].id = tree["self"][1].id + 1
    /\ index["self"].mark_begin = EmptyMap
    /\ index["self"].mark_end = <<>>
    /\ Len(tree["other"]) = 1
    /\ tree["other"][1].action = "MarkEnd"
    /\ index["other"].mark_end = <<tree["other"][1].id>>

(***************************************************************************)
(* change_vis and remove as a caller sees them (SpecCalls).  The last call *)
(* of change_vis is "fresh" while no insert or remove has run since.       *)
(***************************************************************************)
FreshCall == call.n > 0 /\ call.at = steps

\* the maps a and b agree on every key but k
SameButAt(a, b, k) ==
    /\ DOMAIN a \ {k} = DOMAIN b \ {k}
    /\ \A j \in DOMAIN a \ {k} : a[j] = b[j]

\* C21: change_vis with old_vis = true and new_vis = false on an op of key
\* K: when visible[K] was 1, K leaves visible and visible_text.width goes
\* down by the op's text width, stopping at 0; when visible[K] was more
\* than 1, it goes down by one and visible_text.width stays as it was.  No
\* other key of visible changes.
C21_HideVisible ==
    FreshCall =>
        LET cv == call.cv[1]
            pre == call.pre[1]
            now == index["self"]
            K == cv.op.key
            w == cv.op.width
        IN  (cv.old_vis /\ ~cv.new_vis /\ K \in DOMAIN pre.visible) =>
                /\ SameButAt(pre.visible, now.visible, K)
                /\ IF pre.visible[K] = 1 THEN
                       /\ K \notin DOMAIN now.visible
                       /\ now.visible_text.width =
                              IF pre.visible_text.width >= w
                              THEN pre.visible_text.width - w ELSE 0
                   ELSE
                       /\ K \in DOMAIN now.visible
                       /\ now.visible[K] = pre.visible[K] - 1
                       /\ now.visible_text.width = pre.visible_text.width

\* two hides in a row of ops of one key counted twice: the first takes the
\* count from 2 to 1, the second removes the key and the width saturates
C21_Witness ==
    /\ FreshCall
    /\ call.n = 2
    /\ call.pat = steps
    /\ LET first == call.pcv[1]
           second == call.cv[1]
           K == second.op.key
       IN  /\ first.old_vis /\ ~first.new_vis
           /\ second.old_vis /\ ~second.new_vis
           /\ first.op.key = K
           /\ K \in DOMAIN call.ppre[1].visible
           /\ call.ppre[1].visible[K] = 2
           /\ call.pre[1].visible[K] = 1
           /\ call.pre[1].visible_text.width = call.ppre[1].visible_text.width
           /\ call.pre[1].visible_text.width < second.op.width
           /\ K \notin DOMAIN index["self"].visible
           /\ index["self"].visible_text.width = 0

\* C22: change_vis never modifies ops, never_seen_puts, mark_begin or
\* mark_end; with old_vis = new_vis it leaves the whole Index as it was;
\* and whenever it returns, it returns its argument: the same old_vis,
\* new_vis and op.
C22_ChangeVisFrame ==
    FreshCall =>
        LET cv == call.cv[1]
            pre == call.pre[1]
            now == index["self"]
        IN  /\ now.ops = pre.ops
            /\ now.never_seen_puts = pre.never_seen_puts
            /\ now.mark_begin = pre.mark_begin
            /\ now.mark_end = pre.mark_end
            /\ (cv.old_vis = cv.new_vis => now = pre)
            /\ (~panicked =>
                    /\ call.ret /= <<>>
                    /\ call.ret[1].old_vis = cv.old_vis
                    /\ call.ret[1].new_vis = cv.new_vis
                    /\ call.ret[1].op = cv.op)

\* a call with equal flags, then one that shows an op, on an Index with a
\* mark and a Put that is not an insert
C22_Witness ==
    /\ FreshCall
    /\ call.n = 2
    /\ call.pat = steps
    /\ call.pcv[1].old_vis = call.pcv[1].new_vis
    /\ call.pre[1] = call.ppre[1]
    /\ ~call.cv[1].old_vis /\ call.cv[1].new_vis
    /\ index["self"].visible /= call.pre[1].visible
    /\ index["self"].mark_begin /= EmptyMap
    /\ ~index["self"].never_seen_puts
    /\ call.ret = call.cv

\* C23: Index::remove of a visible op, and change_vis with (true, false),
\* panic exactly when the op's key is not in visible: they panic when it
\* is missing and do not when it is present; and no count below 1 is ever
\* stored in visible.
C23_PanicOnMissingKey ==
    /\ [](FreshCall =>
            (panicked <=>
                /\ call.cv[1].old_vis
                /\ ~call.cv[1].new_vis
                /\ call.cv[1].op.key \notin DOMAIN call.pre[1].visible))
    /\ [](\A k \in DOMAIN index["self"].visible : index["self"].visible[k] >= 1)
    /\ [][\A p \in 1..Len(tree["self"]) :
            (steps' = steps + 1 /\ tree'["self"] = RemoveAt(tree["self"], p)) =>
                (panicked' <=>
                    /\ tree["self"][p].vis
                    /\ tree["self"][p].key \notin DOMAIN index["self"].visible)]_vars

\* an op is hidden without a panic (its key was counted), a second call
\* claims it visible again without changing its flags, and its removal
\* then panics
C23_Witness ==
    /\ panicked
    /\ call.n = 2
    /\ call.at < steps
    /\ call.pat = call.at
    /\ call.pcv[1].old_vis /\ ~call.pcv[1].new_vis
    /\ call.pcv[1].op.key \in DOMAIN call.ppre[1].visible
    /\ call.cv[1].old_vis /\ call.cv[1].new_vis
    /\ call.cv[1].op.id = call.pcv[1].op.id
    /\ call.cv[1].op.key \notin DOMAIN index["self"].visible

\* the last two calls hid and then showed one op that was counted visible,
\* on an Index every call of change_vis so far was honest with
HideThenShow ==
    /\ FreshCall
    /\ call.n >= 2
    /\ call.pat = steps
    /\ call.honest
    /\ ~panicked
    /\ call.pcv[1].old_vis /\ ~call.pcv[1].new_vis
    /\ ~call.cv[1].old_vis /\ call.cv[1].new_vis
    /\ call.cv[1].op.id = call.pcv[1].op.id

\* C27 as stated: hiding and then showing a visible op restores the Index
\* exactly, visible_text.width included.
C27_HideThenShowRestores ==
    HideThenShow => index["self"] = call.ppre[1]

\* C27: hiding and then showing a visible op restores every field of the
\* Index but visible_text.width, and the width too unless the op was the
\* only one counted for its key and the width before the calls was below
\* the op's text width; the width then ends at the op's text width.
C27_HideThenShowRestoresButWidth ==
    HideThenShow =>
        LET pre == call.ppre[1]
            now == index["self"]
            op == call.cv[1].op
        IN  /\ [now EXCEPT !.visible_text = pre.visible_text] = pre
            /\ now.visible_text.width =
                   IF pre.visible[op.key] = 1 /\ pre.visible_text.width < op.width
                   THEN op.width ELSE pre.visible_text.width

\* the op of width 2 is the only visible one of its key while the width,
\* taken from an op of width 1 removed since, is 1: it ends at 2
C27_Witness ==
    /\ HideThenShow
    /\ call.ppre[1].visible[call.cv[1].op.key] = 1
    /\ call.ppre[1].visible_text.width = 1
    /\ call.cv[1].op.width = 2
    /\ index["self"].visible_text.width = 2
    /\ index["self"].visible = call.ppre[1].visible

(***************************************************************************)
(* C26: when self.merge(&other) is called and one OpId is a key of         *)
(* mark_begin in both indices, merge does not panic; the merged mark_begin *)
(* has one entry for that id, carrying other's MarkData, and the entries   *)
(* of the ids only one side has; every other field is combined as usual:   *)
(* ops united, counts and widths added, never_seen_puts and-ed, mark_end   *)
(* appended.                                                               *)
(***************************************************************************)
C26_MergeOverwritesMarkBegin ==
    hist["self"].merged = "fresh" =>
        LET a == Build(PartA)
            b == Build(PartB)
            now == index["self"]
        IN  /\ ~panicked
            /\ DOMAIN now.mark_begin = DOMAIN a.mark_begin \cup DOMAIN b.mark_begin
            /\ \A id \in DOMAIN b.mark_begin : now.mark_begin[id] = b.mark_begin[id]
            /\ \A id \in DOMAIN a.mark_begin \ DOMAIN b.mark_begin :
                    now.mark_begin[id] = a.mark_begin[id]
            /\ now.ops = a.ops \cup b.ops
            /\ DOMAIN now.visible = DOMAIN a.visible \cup DOMAIN b.visible
            /\ \A k \in DOMAIN now.visible :
                    now.visible[k] =
                        (IF k \in DOMAIN a.visible THEN a.visible[k] ELSE 0)
                        + (IF k \in DOMAIN b.visible THEN b.visible[k] ELSE 0)
            /\ now.visible_text.width = a.visible_text.width + b.visible_text.width
            /\ now.never_seen_puts = (a.never_seen_puts /\ b.never_seen_puts)
            /\ now.mark_end = a.mark_end \o b.mark_end

\* both sides held a MarkBegin of one id with different names, and self a
\* visible op too
C26_Witness ==
    /\ hist["self"].merged = "fresh"
    /\ ~panicked
    /\ LET a == Build(PartA)
           b == Build(PartB)
       IN  /\ \E id \in DOMAIN a.mark_begin \cap DOMAIN b.mark_begin :
                   /\ a.mark_begin[id] /= b.mark_begin[id]
                   /\ index["self"].mark_begin[id] = b.mark_begin[id]
           /\ a.visible /= EmptyMap
           /\ index["self"].visible = a.visible

(***************************************************************************)
(* C24: from_action_and_value followed by the action projection is the     *)
(* identity on actions: for every action a, value v valid for a (any value *)
(* but for Increment, which takes an Int or a Uint), optional mark name    *)
(* and expand flag, the call returns an OpType whose action is a.  Set     *)
(* gives Put(v), each Make* the Make of its object type, Delete gives      *)
(* Delete, Mark gives MarkBegin(expand, MarkData{name, v}) with a name and *)
(* MarkEnd(expand) without.                                                *)
(***************************************************************************)
C24_ActionOfReconstructed ==
    (family = "optype" /\ optype /= None) =>
        LET a == action[1]
            v == scalar[1]
            r == optype[1]
        IN  (a /= "Increment" \/ v.tag \in {"Int", "Uint"}) =>
              /\ ~r.panic
              /\ projected /= None => projected[1] = a
              /\ a = "Set" => r.val = [type |-> "Put", value |-> v]
              /\ a = "MakeMap" => r.val = [type |-> "Make", obj |-> "Map"]
              /\ a = "MakeList" => r.val = [type |-> "Make", obj |-> "List"]
              /\ a = "MakeText" => r.val = [type |-> "Make", obj |-> "Text"]
              /\ a = "MakeTable" => r.val = [type |-> "Make", obj |-> "Table"]
              /\ a = "Delete" => r.val = [type |-> "Delete"]
              /\ (a = "Mark" /\ mark_name /= None) =>
                    r.val = [type |-> "MarkBegin", expand |-> expand,
                             data |-> [name |-> mark_name[1], value |-> v]]
              /\ (a = "Mark" /\ mark_name = None) =>
                    r.val = [type |-> "MarkEnd", expand |-> expand]

\* a Mark without a name becomes MarkEnd(true), whose action is Mark again
C24_Witness ==
    /\ family = "optype"
    /\ action = Some("Mark")
    /\ mark_name = None
    /\ expand
    /\ optype = Some(Returned([type |-> "MarkEnd", expand |-> TRUE]))
    /\ projected = Some("Mark")

(***************************************************************************)
(* C25: from_action_and_value with Increment returns Increment(i) for      *)
(* Int(i) and for Uint(i), the Uint taken as an i64, and panics for every  *)
(* other scalar variant, Counter and Timestamp included; with any other    *)
(* action it panics for no value.                                          *)
(***************************************************************************)
C25_IncrementPanicsOnNonNumeric ==
    (family = "optype" /\ optype /= None) =>
        LET a == action[1]
            v == scalar[1]
            r == optype[1]
        IN  /\ (a = "Increment" /\ v.tag \in {"Int", "Uint"}) =>
                  r = Returned([type |-> "Increment", n |-> v.v])
            /\ (a = "Increment" /\ v.tag \notin {"Int", "Uint"}) => r.panic
            /\ a /= "Increment" => ~r.panic

\* an Increment read with a Counter value panics
C25_Witness ==
    /\ family = "optype"
    /\ action = Some("Increment")
    /\ scalar[1].tag = "Counter"
    /\ scalar[1].v = 1
    /\ optype /= None
    /\ optype[1].panic

(***************************************************************************)
(* C28: from_raw never panics and reports a malformed payload as the error *)
(* of its type: ReadScalarError::Uleb for a Uleb meta whose payload is not *)
(* an unsigned LEB128 number, ReadScalarError::Leb for a Leb, Counter or   *)
(* Timestamp meta whose payload is not a signed one, ReadScalarError::Float *)
(* for a Float meta whose payload is not 8 bytes, ReadScalarError::Str for *)
(* a String meta whose payload is not UTF-8.                               *)
(***************************************************************************)
C28_MalformedPayloadErrors ==
    (family = "decode" /\ back /= None) =>
        LET t == TypeCode(meta[1]).type
            bytes == raw[1][1]
            r == back[1]
        IN  /\ (t = "Uleb" /\ ~ReadUnsigned(bytes).ok) => r = Err("Uleb")
            /\ (t \in {"Leb", "Counter", "Timestamp"} /\ ~ReadSigned(bytes).ok) =>
                  r = Err("Leb")
            /\ (t = "Float" /\ Len(bytes) /= 8) => r = Err("Float")
            /\ (t = "String" /\ ~FromUtf8(bytes).ok) => r = Err("Str")

=============================================================================
